---- MODULE Spec2Model ----
(***************************************************************************)
(* ArbitrageAI: the local record store (src/src/utils/localStorage.ts),    *)
(* the contract service that mirrors a remote ledger into it               *)
(* (src/src/utils/nearContract.ts, second NearContractService), the price  *)
(* feed detector (src/src/utils/priceFeeds.ts) and the advisory ranking    *)
(* (src/src/utils/groqAI.ts).                                              *)
(*                                                                         *)
(* Conventions.  Money is fixed point: prices and profits are integers in  *)
(* cents, so Math.abs(a - b) * 0.8 is (|a - b| * 8) \div 10.  Template     *)
(* strings such as `execution-${Date.now()}-${random}` are pairs           *)
(* <<prefix, n>>.  Date.now() is the variable now; the random suffix of an *)
(* id is the least number no stored or pending record uses.                *)
(***************************************************************************)
EXTENDS Integers, Sequences, FiniteSets, TLC

VARIABLES
    intents,          \* localStorage['arbitrage_ai_intents'], a sequence
    executions,       \* localStorage['arbitrage_ai_executions'], a sequence
    profits,          \* localStorage['arbitrage_ai_profits'], user -> number
    accountId,        \* wallet.getAccountId() of the session, or NoAccount
    contract,         \* NearContractService.contract is non-null
    ledgerIntents,    \* what get_user_intents returns for the session user
    ledgerExecutions, \* what get_execution_history returns for that user
    calls,            \* async calls suspended at their remote await
    now,              \* Date.now()
    result,           \* what the last completed operation returned or threw
    baseline,         \* the store a run of reconciliations started from
    exported,         \* the document exportData returned, <<>> before any
    quotes,           \* priceFeeds: the prices one detection cycle sampled
    opportunities,    \* priceFeeds: what detectArbitrageOpportunities returned
    priceCache,       \* priceFeeds: PriceFeedManager.priceCache, token -> PriceData
    prices,           \* priceFeeds: what the last fetchPrices call returned
    hook,             \* useGroqAI: the component's state cells and its timers
    apiKey,           \* groqAI: VITE_GROQ_API_KEY is set
    aiInput,          \* groqAI: per symbol, the near/eth prices and the advisory
    aiOpportunities,  \* groqAI: what detectArbitrageOpportunities returned
    analysisHistory,  \* groqAI: GroqAIService.analysisHistory
    marketUpdates,    \* groqAI: GroqAIService.marketUpdates
    lastAnalysisTime, \* groqAI: GroqAIService.lastAnalysisTime
    requests,         \* groqAI: groq.chat.completions.create calls made so far
    returned          \* groqAI: what the last advisory call returned

storeVars == <<intents, executions, profits>>
envVars == <<accountId, contract, ledgerIntents, ledgerExecutions, baseline, exported>>
feedVars == <<priceCache, prices>>
detectVars == <<quotes, opportunities, feedVars, hook>>
groqVars == <<analysisHistory, marketUpdates, lastAnalysisTime, requests, returned>>
aiVars == <<apiKey, aiInput, aiOpportunities, groqVars>>
vars == <<intents, executions, profits, accountId, contract, ledgerIntents,
          ledgerExecutions, calls, now, result, baseline, exported, quotes,
          opportunities, priceCache, prices, hook,
          apiKey, aiInput, aiOpportunities, analysisHistory, marketUpdates,
          lastAnalysisTime, requests, returned>>

----
\* Bounds of the model.
MaxTime == 1
MaxCalls == 2
MaxExecutions == 1
MaxIntents == 1
MaxExcess == 4000
MaxSymbols == 2
MaxRequests == 4
MaxClock == 62000
MaxUpdates == 1

NoAccount == "null"
Users == {"alice", "bob"}
SessionUser == "alice"
TokenPairs == {"ETH/USDC", "BTC/USDC"}
Thresholds == {"1.5", "2.0"}

Range(s) == {s[k] : k \in 1..Len(s)}
Abs(x) == IF x < 0 THEN -x ELSE x
Min(a, b) == IF a < b THEN a ELSE b

\* s.findIndex(x => x.id === id): the first index with that id, 0 for -1.
FindIndex(s, id) ==
    IF \E k \in 1..Len(s) : s[k].id = id
    THEN CHOOSE k \in 1..Len(s) : s[k].id = id /\ \A j \in 1..(k - 1) : s[j].id # id
    ELSE 0

----
\* The local record store.

\* getIntents(userId)
GetIntents(userId) == SelectSeq(intents, LAMBDA i : i.user = userId)

\* getExecutions(userId)
GetExecutions(userId) == SelectSeq(executions, LAMBDA e : e.user = userId)

\* getTotalProfit(userId): profits[userId] || 0
GetTotalProfitOf(p, userId) == IF userId \in DOMAIN p THEN p[userId] ELSE 0
GetTotalProfit(userId) == GetTotalProfitOf(profits, userId)

\* saveIntent: replace the record with the same id, else push.
SaveIntentIn(ints, intent) ==
    LET existingIndex == FindIndex(ints, intent.id)
    IN IF existingIndex > 0 THEN [ints EXCEPT ![existingIndex] = intent]
       ELSE Append(ints, intent)

\* updateIntentStatus: set the status of the record with that id, if any.
UpdateIntentStatusIn(ints, intentId, status) ==
    LET intentIndex == FindIndex(ints, intentId)
    IN IF intentIndex > 0 THEN [ints EXCEPT ![intentIndex].status = status]
       ELSE ints

\* executions.sort((a, b) => parseInt(b.timestamp) - parseInt(a.timestamp)):
\* a stable sort, newest first.
RECURSIVE InsertByTimestamp(_, _)
InsertByTimestamp(sorted, e) ==
    IF sorted = <<>> THEN <<e>>
    ELSE IF Head(sorted).timestamp >= e.timestamp
         THEN <<Head(sorted)>> \o InsertByTimestamp(Tail(sorted), e)
         ELSE <<e>> \o sorted

RECURSIVE SortByTimestamp(_)
SortByTimestamp(s) ==
    IF s = <<>> THEN <<>>
    ELSE InsertByTimestamp(SortByTimestamp(SubSeq(s, 1, Len(s) - 1)), s[Len(s)])

\* updateTotalProfit
UpdateTotalProfitIn(p, userId, additionalProfit) ==
    [u \in DOMAIN p \cup {userId} |->
        IF u = userId THEN GetTotalProfitOf(p, userId) + additionalProfit
        ELSE p[u]]

\* A save that pushes without looking for the id.
SaveExecutionListPush(execs, execution) == SortByTimestamp(Append(execs, execution))

\* saveExecution, the execution list it writes.
SaveExecutionList(execs, execution) ==
    LET existingIndex == FindIndex(execs, execution.id)
    IN SortByTimestamp(IF existingIndex > 0
                       THEN [execs EXCEPT ![existingIndex] = execution]
                       ELSE Append(execs, execution))

\* saveExecution, the profit table it writes: it adds the profit on every call.
SaveExecutionProfits(execs, p, execution) ==
    UpdateTotalProfitIn(p, execution.user, execution.profit)

\* sum(profit for all Executions where Execution.user == user)
RECURSIVE SumProfit(_, _)
SumProfit(execs, userId) ==
    IF execs = <<>> THEN 0
    ELSE (IF Head(execs).user = userId THEN Head(execs).profit ELSE 0)
         + SumProfit(Tail(execs), userId)

\* The model stops adding to a total that exceeds the sum of the stored
\* profits by more than MaxExcess.
WithinExcess(execs, p) == \A u \in DOMAIN p : p[u] <= SumProfit(execs, u) + MaxExcess

\* clearAllData removes the three keys; getProfits then reads {}.
NoProfits == [u \in {} |-> 0]

----
\* Records.

\* StoredIntent
Intent(id, user, tokenPair, threshold, status, createdAt, source) ==
    [id |-> id, user |-> user, token_pair |-> tokenPair,
     min_profit_threshold |-> threshold, status |-> status,
     created_at |-> createdAt, source |-> source]

\* The whole price difference, nothing held back.
ProfitGross(nearPrice, ethPrice) == Abs(nearPrice - ethPrice)

\* const profit = Math.abs(parseFloat(nearPrice) - parseFloat(ethPrice)) * 0.8
Profit(nearPrice, ethPrice) == (Abs(nearPrice - ethPrice) * 8) \div 10

\* StoredExecution
Execution(id, intentId, user, tokenPair, profit, txHash, timestamp, nearPrice, ethPrice, source) ==
    [id |-> id, intent_id |-> intentId, user |-> user, token_pair |-> tokenPair,
     price_diff |-> Abs(nearPrice - ethPrice), profit |-> profit,
     gas_fees |-> "0.01", tx_hash |-> txHash, timestamp |-> timestamp,
     near_price |-> nearPrice, eth_price |-> ethPrice, source |-> source]

\* A suspended async call: the operation and the locals it holds across the
\* await (the local list it read, or the execution it built).
Call(op, held) == [op |-> op, held |-> held]
NoCall == Call("none", <<>>)
Slots == DOMAIN calls
FreeSlots == {k \in Slots : calls[k] = NoCall}
Suspend(c) ==
    /\ FreeSlots # {}
    /\ calls' = [calls EXCEPT ![CHOOSE k \in FreeSlots : \A j \in FreeSlots : k <= j] = c]

\* What an operation returned (ok) or that it threw (~ok).
Result(op, ok, source) == [op |-> op, ok |-> ok, source |-> source]

\* The random suffix of a new id: the least number not in use.
UsedIds ==
    {i.id : i \in Range(intents)} \cup {e.id : e \in Range(executions)}
    \cup {e.intent_id : e \in Range(executions)}
    \cup {i.id : i \in Range(ledgerIntents)} \cup {e.id : e \in Range(ledgerExecutions)}
    \cup UNION {{x.id : x \in Range(calls[k].held)} : k \in Slots}
FreshId(prefix) ==
    <<prefix, CHOOSE n \in 1..(Cardinality(UsedIds) + 1) :
                 /\ <<prefix, n>> \notin UsedIds
                 /\ \A m \in 1..(n - 1) : <<prefix, m>> \in UsedIds>>

\* The (near, eth) prices the orchestrator is called with, in cents.
ExecPrices == {<<300000, 295450>>}

----
\* NearContractService (src/src/utils/nearContract.ts, lines 550-1114).

\* isSignedIn()
IsSignedIn == accountId # NoAccount

\* pauseIntent: the local update comes first and nothing follows the await.
PauseIntent(intentId) ==
    /\ intents' = UpdateIntentStatusIn(intents, intentId, "paused")
    /\ result' = Result("pauseIntent", TRUE, "none")
    /\ UNCHANGED <<executions, profits, envVars, calls, now, detectVars, aiVars>>

\* resumeIntent
ResumeIntent(intentId) ==
    /\ intents' = UpdateIntentStatusIn(intents, intentId, "active")
    /\ result' = Result("resumeIntent", TRUE, "none")
    /\ UNCHANGED <<executions, profits, envVars, calls, now, detectVars, aiVars>>

\* executeArbitrage, the tail after the contract attempt: saveExecution,
\* updateIntentStatus(intentId, 'executed'), return success.
ExecuteTail(newExecution) ==
    /\ executions' = SaveExecutionList(executions, newExecution)
    /\ profits' = SaveExecutionProfits(executions, profits, newExecution)
    /\ WithinExcess(executions', profits')
    /\ intents' = UpdateIntentStatusIn(intents, newExecution.intent_id, "executed")
    /\ result' = Result("executeArbitrage", TRUE, newExecution.source)

\* executeArbitrage up to the contract call: without an account it throws;
\* without a contract it runs to its end; with one it suspends at the call.
\* The model holds MaxExecutions executions, and one more for each further
\* call that can be suspended at the same time.
ExecuteArbitrage(intentId, nearPrice, ethPrice) ==
    IF accountId = NoAccount
    THEN /\ result' = Result("executeArbitrage", FALSE, "none")
         /\ UNCHANGED <<storeVars, envVars, calls, now, detectVars, aiVars>>
    ELSE LET newExecution ==
                 Execution(FreshId("execution"), intentId, accountId, "ETH/USDC",
                           Profit(nearPrice, ethPrice), <<"tx", now>>, now,
                           nearPrice, ethPrice,
                           IF contract THEN "contract" ELSE "demo")
         IN /\ Len(executions)
                 + Cardinality({k \in Slots : calls[k].op = "executeArbitrage"})
               < MaxExecutions + Len(calls) - 1
            /\ IF contract /\ IsSignedIn
               THEN /\ Suspend(Call("executeArbitrage", <<newExecution>>))
                    /\ UNCHANGED <<storeVars, result>>
               ELSE /\ ExecuteTail(newExecution)
                    /\ UNCHANGED calls
            /\ UNCHANGED <<envVars, now, detectVars, aiVars>>

\* The contract call of executeArbitrage returned: with a transaction hash,
\* or without one (result.transaction?.hash || newExecution.tx_hash).
ExecuteRemoteOk(k, withHash) ==
    /\ calls[k].op = "executeArbitrage"
    /\ LET built == calls[k].held[1]
           newExecution ==
               [built EXCEPT !.tx_hash = IF withHash THEN <<"hash", built.id[2]>>
                                         ELSE built.tx_hash,
                             !.source = "contract"]
       IN ExecuteTail(newExecution)
    /\ calls' = [calls EXCEPT ![k] = NoCall]
    /\ UNCHANGED <<envVars, now, detectVars, aiVars>>

\* A failure path that keeps the source the execution was built with.
ExecuteRemoteFailKeepsSource(k) ==
    /\ calls[k].op = "executeArbitrage"
    /\ ExecuteTail(calls[k].held[1])
    /\ calls' = [calls EXCEPT ![k] = NoCall]
    /\ UNCHANGED <<envVars, now, detectVars, aiVars>>

\* The contract call of executeArbitrage threw.
ExecuteRemoteFail(k) ==
    /\ calls[k].op = "executeArbitrage"
    /\ ExecuteTail([calls[k].held[1] EXCEPT !.source = "demo"])
    /\ calls' = [calls EXCEPT ![k] = NoCall]
    /\ UNCHANGED <<envVars, now, detectVars, aiVars>>

\* A merge that saves every contract intent, matched locally or not.
RECURSIVE MergeIntentsUnmatched(_, _, _)
MergeIntentsUnmatched(store, localIntents, contractIntents) ==
    IF contractIntents = <<>> THEN <<store, localIntents>>
    ELSE LET c == Head(contractIntents)
             syncedIntent == Intent(c.id, c.user, c.token_pair, c.min_profit_threshold,
                                    c.status, c.created_at, "contract")
         IN MergeIntentsUnmatched(SaveIntentIn(store, syncedIntent),
                                  Append(localIntents, syncedIntent),
                                  Tail(contractIntents))

\* getUserIntents, the merge of the contract's intents: one not matched in the
\* local list by (token_pair, min_profit_threshold) is saved with source
\* 'contract' and pushed onto the local list.  <<store, localIntents>>.
RECURSIVE MergeIntents(_, _, _)
MergeIntents(store, localIntents, contractIntents) ==
    IF contractIntents = <<>> THEN <<store, localIntents>>
    ELSE LET contractIntent == Head(contractIntents)
             existingLocal ==
                 \E k \in 1..Len(localIntents) :
                     /\ localIntents[k].token_pair = contractIntent.token_pair
                     /\ localIntents[k].min_profit_threshold
                            = contractIntent.min_profit_threshold
             syncedIntent ==
                 Intent(contractIntent.id, contractIntent.user,
                        contractIntent.token_pair,
                        contractIntent.min_profit_threshold,
                        contractIntent.status, contractIntent.created_at,
                        "contract")
         IN IF existingLocal
            THEN MergeIntents(store, localIntents, Tail(contractIntents))
            ELSE MergeIntents(SaveIntentIn(store, syncedIntent),
                              Append(localIntents, syncedIntent),
                              Tail(contractIntents))

\* getExecutionHistory, the merge of the contract's executions: one whose
\* tx_hash no local execution has is saved (list and profit) and pushed.
\* <<executions, profits, localExecutions>>.
RECURSIVE MergeExecutions(_, _, _, _)
MergeExecutions(store, p, localExecutions, contractExecutions) ==
    IF contractExecutions = <<>> THEN <<store, p, localExecutions>>
    ELSE LET contractExecution == Head(contractExecutions)
             existingLocal ==
                 \E k \in 1..Len(localExecutions) :
                     localExecutions[k].tx_hash = contractExecution.tx_hash
             syncedExecution == [contractExecution EXCEPT !.source = "contract"]
         IN IF existingLocal
            THEN MergeExecutions(store, p, localExecutions, Tail(contractExecutions))
            ELSE MergeExecutions(SaveExecutionList(store, syncedExecution),
                                 SaveExecutionProfits(store, p, syncedExecution),
                                 Append(localExecutions, syncedExecution),
                                 Tail(contractExecutions))

\* getUserIntents up to the contract view call: no account returns []; with no
\* contract the local list is returned; else the call suspends holding it.
GetUserIntents ==
    /\ IF accountId # NoAccount /\ contract /\ IsSignedIn
       THEN /\ Suspend(Call("getUserIntents", GetIntents(accountId)))
            /\ UNCHANGED result
       ELSE /\ result' = Result("getUserIntents", TRUE, "local")
            /\ UNCHANGED calls
    /\ UNCHANGED <<storeVars, envVars, now, detectVars, aiVars>>

\* The view call of getUserIntents returned the ledger's intents.
GetUserIntentsOk(k) ==
    /\ calls[k].op = "getUserIntents"
    /\ intents' = MergeIntents(intents, calls[k].held, ledgerIntents)[1]
    /\ calls' = [calls EXCEPT ![k] = NoCall]
    /\ result' = Result("getUserIntents", TRUE, "contract")
    /\ UNCHANGED <<executions, profits, envVars, now, detectVars, aiVars>>

\* A failure path that lets the sync error out.
GetUserIntentsFailThrows(k) ==
    /\ calls[k].op = "getUserIntents"
    /\ calls' = [calls EXCEPT ![k] = NoCall]
    /\ result' = Result("getUserIntents", FALSE, "none")
    /\ UNCHANGED <<storeVars, envVars, now, detectVars, aiVars>>

\* The view call threw: 'Contract sync failed, using local data'.
GetUserIntentsFail(k) ==
    /\ calls[k].op = "getUserIntents"
    /\ calls' = [calls EXCEPT ![k] = NoCall]
    /\ result' = Result("getUserIntents", TRUE, "local")
    /\ UNCHANGED <<storeVars, envVars, now, detectVars, aiVars>>

\* getExecutionHistory up to the contract view call.
GetExecutionHistory ==
    /\ IF accountId # NoAccount /\ contract /\ IsSignedIn
       THEN /\ Suspend(Call("getExecutionHistory", GetExecutions(accountId)))
            /\ UNCHANGED result
       ELSE /\ result' = Result("getExecutionHistory", TRUE, "local")
            /\ UNCHANGED calls
    /\ UNCHANGED <<storeVars, envVars, now, detectVars, aiVars>>

\* The view call of getExecutionHistory returned the ledger's executions.
GetExecutionHistoryOk(k) ==
    /\ calls[k].op = "getExecutionHistory"
    /\ LET merged == MergeExecutions(executions, profits, calls[k].held, ledgerExecutions)
       IN /\ executions' = merged[1]
          /\ profits' = merged[2]
          /\ WithinExcess(merged[1], merged[2])
    /\ calls' = [calls EXCEPT ![k] = NoCall]
    /\ result' = Result("getExecutionHistory", TRUE, "contract")
    /\ UNCHANGED <<intents, envVars, now, detectVars, aiVars>>

\* The view call threw.
GetExecutionHistoryFail(k) ==
    /\ calls[k].op = "getExecutionHistory"
    /\ calls' = [calls EXCEPT ![k] = NoCall]
    /\ result' = Result("getExecutionHistory", TRUE, "local")
    /\ UNCHANGED <<storeVars, envVars, now, detectVars, aiVars>>

\* parseFloat of the threshold strings a caller passes: <<n>> for the number
\* n, in tenths of a percent, and <<>> for NaN.
ThresholdInputs == {"1.5", "0", "101", "abc", ""}
ParseFloat(str) ==
    CASE str = "1.5" -> <<15>>
      [] str = "2.0" -> <<20>>
      [] str = "0" -> <<0>>
      [] str = "101" -> <<1010>>
      [] str = "100" -> <<1000>>
      [] str = "-1" -> <<-10>>
      [] str = "1.5abc" -> <<15>>
      [] OTHER -> <<>>
IsNaN(x) == x = <<>>

\* A createIntent whose range check has no upper limit.
CreateIntentNoUpperLimit(tokenPair, minProfitThreshold, remoteOk) ==
    LET threshold == ParseFloat(minProfitThreshold)
        invalid ==
            \/ ~IsSignedIn
            \/ tokenPair = "" \/ minProfitThreshold = ""
            \/ IsNaN(threshold)
            \/ (~IsNaN(threshold) /\ threshold[1] <= 0)
        newIntent ==
            Intent(FreshId("intent"), accountId, tokenPair, minProfitThreshold,
                   "active", now,
                   IF contract /\ remoteOk THEN "contract" ELSE "demo")
    IN /\ contract \/ remoteOk
       /\ IF invalid
          THEN /\ result' = Result("createIntent", FALSE, "none")
               /\ UNCHANGED intents
          ELSE /\ Len(intents) < MaxIntents
               /\ intents' = SaveIntentIn(intents, newIntent)
               /\ result' = Result("createIntent", TRUE, newIntent.source)
       /\ UNCHANGED <<executions, profits, envVars, calls, now, detectVars, aiVars>>

\* createIntent: the sign-in and input checks throw; the contract call, when
\* there is a contract, only decides the source; then saveIntent.
CreateIntent(tokenPair, minProfitThreshold, remoteOk) ==
    LET threshold == ParseFloat(minProfitThreshold)
        invalid ==
            \/ ~IsSignedIn
            \/ tokenPair = "" \/ minProfitThreshold = ""
            \/ IsNaN(threshold)
            \/ (~IsNaN(threshold) /\ (threshold[1] <= 0 \/ threshold[1] > 1000))
        newIntent ==
            Intent(FreshId("intent"), accountId, tokenPair, minProfitThreshold,
                   "active", now,
                   IF contract /\ remoteOk THEN "contract" ELSE "demo")
    IN /\ contract \/ remoteOk
       /\ IF invalid
          THEN /\ result' = Result("createIntent", FALSE, "none")
               /\ UNCHANGED intents
          ELSE /\ Len(intents) < MaxIntents
               /\ intents' = SaveIntentIn(intents, newIntent)
               /\ result' = Result("createIntent", TRUE, newIntent.source)
       /\ UNCHANGED <<executions, profits, envVars, calls, now, detectVars, aiVars>>

----
\* The store's own entry points (src/src/utils/localStorage.ts).

\* Executions a caller of saveExecution may pass besides a stored one.
ExecutionPool ==
    {Execution(<<"execution", 91>>, <<"intent", 91>>, "bob", "BTC/USDC", 4000,
               <<"tx", 91>>, 1, 300000, 295000, "demo")}

\* saveExecution(execution)
SaveExecution(execution) ==
    /\ \/ \E k \in 1..Len(executions) : executions[k].id = execution.id
       \/ Len(executions) < MaxExecutions
    /\ executions' = SaveExecutionList(executions, execution)
    /\ profits' = SaveExecutionProfits(executions, profits, execution)
    /\ WithinExcess(executions', profits')
    /\ result' = Result("saveExecution", TRUE, execution.source)
    /\ UNCHANGED <<intents, envVars, calls, now, detectVars, aiVars>>

\* clearAllData
ClearAllData ==
    /\ intents' = <<>>
    /\ executions' = <<>>
    /\ profits' = NoProfits
    /\ result' = Result("clearAllData", TRUE, "none")
    /\ UNCHANGED <<envVars, calls, now, detectVars, aiVars>>

\* A document handed to importData: whether JSON.parse accepts it and, per
\* key, whether it is present and what it holds.
Document(parses, hasIntents, docIntents, hasExecutions, docExecutions, hasProfits, docProfits) ==
    [parses |-> parses,
     hasIntents |-> hasIntents, intents |-> docIntents,
     hasExecutions |-> hasExecutions, executions |-> docExecutions,
     hasProfits |-> hasProfits, profits |-> docProfits]

ImportDocuments ==
    LET i == Intent(<<"intent", 80>>, "alice", "BTC/USDC", "2.0", "paused", 0, "demo")
        e == Execution(<<"execution", 80>>, <<"intent", 80>>, "alice", "BTC/USDC",
                       360, <<"tx", 80>>, 0, 295450, 295000, "demo")
    IN {Document(FALSE, FALSE, <<>>, FALSE, <<>>, FALSE, NoProfits),
        Document(TRUE, TRUE, <<i>>, TRUE, <<e>>, TRUE, [u \in {"alice"} |-> 360]),
        Document(TRUE, FALSE, <<>>, TRUE, <<e>>, FALSE, NoProfits)}

\* importData: each key that is present replaces its collection; a document
\* that does not parse returns false.
ImportData(data) ==
    /\ IF data.parses
       THEN /\ intents' = IF data.hasIntents THEN data.intents ELSE intents
            /\ executions' = IF data.hasExecutions THEN data.executions ELSE executions
            /\ profits' = IF data.hasProfits THEN data.profits ELSE profits
            /\ result' = Result("importData", TRUE, "none")
       ELSE /\ result' = Result("importData", FALSE, "none")
            /\ UNCHANGED storeVars
    /\ UNCHANGED <<envVars, calls, now, detectVars, aiVars>>

\* The two demo intents and two demo executions of generateDemoData.
DemoIntents(userId, t) ==
    <<Intent(<<"demo-intent-1", t>>, userId, "ETH/USDC", "1.5", "active", t, "demo"),
      Intent(<<"demo-intent-2", t + 1>>, userId, "BTC/USDC", "2.0", "paused",
             t - 86400000, "demo")>>

DemoExecutions(userId, t) ==
    <<Execution(<<"demo-exec-1", t>>, <<"demo-intent-1", t>>, userId, "ETH/USDC",
                3640, <<"demo-tx-hash-1", t>>, t, 300000, 295450, "demo"),
      [Execution(<<"demo-exec-2", t + 1>>, <<"demo-intent-2", t + 1>>, userId,
                 "BTC/USDC", 68000, <<"demo-tx-hash-2", t + 1>>, t - 3600000,
                 4500000, 4415000, "demo") EXCEPT !.gas_fees = "0.02"]>>

\* generateDemoData(userId), called by initialize() for the signed-in account:
\* when the user has no intent, saveIntent each demo intent and saveExecution
\* each demo execution.
GenerateDemoData ==
    /\ IsSignedIn
    /\ GetIntents(accountId) = <<>>
    /\ LET di == DemoIntents(accountId, now)
           de == DemoExecutions(accountId, now)
           afterFirst == SaveExecutionList(executions, de[1])
       IN /\ intents' = SaveIntentIn(SaveIntentIn(intents, di[1]), di[2])
          /\ executions' = SaveExecutionList(afterFirst, de[2])
          /\ profits' = SaveExecutionProfits(afterFirst,
                            SaveExecutionProfits(executions, profits, de[1]), de[2])
          /\ WithinExcess(executions', profits')
    /\ result' = Result("generateDemoData", TRUE, "demo")
    /\ UNCHANGED <<envVars, calls, now, detectVars, aiVars>>

\* Time passes.
Tick ==
    /\ now < MaxTime
    /\ now' = now + 1
    /\ UNCHANGED <<storeVars, envVars, calls, result, detectVars, aiVars>>

----
\* The remote ledger: what the contract's view methods return for the
\* session user.  It is the environment's and does not change here.
LedgerIntent(n, tokenPair, threshold, status) ==
    [id |-> <<"remote-intent", n>>, user |-> SessionUser, token_pair |-> tokenPair,
     min_profit_threshold |-> threshold, status |-> status, created_at |-> 0]

LedgerExecution(n, hash, profit, timestamp) ==
    [Execution(<<"remote-execution", n>>, <<"remote-intent", 1>>, SessionUser,
               "ETH/USDC", profit, <<"hash", hash>>, timestamp, 300000, 295000,
               "contract") EXCEPT !.profit = profit]

OnlineLedger ==
    <<SessionUser, TRUE,
      <<LedgerIntent(1, "ETH/USDC", "1.5", "active"),
        LedgerIntent(2, "BTC/USDC", "2.0", "paused"),
        LedgerIntent(3, "ETH/USDC", "1.5", "active")>>,
      <<LedgerExecution(1, 1, 4000, 0), LedgerExecution(2, 1, 4000, 1)>>>>

Ledgers ==
    {<<NoAccount, FALSE, <<>>, <<>>>>,
     <<SessionUser, FALSE, <<>>, <<>>>>,
     OnlineLedger}

----
\* The record store and contract service.

\* new GroqAIService(): empty histories, lastAnalysisTime = 0, nothing asked.
NoAnalysis == [analysisId |-> <<"none", 0>>]
InitGroq ==
    /\ analysisHistory = <<>>
    /\ marketUpdates = <<>>
    /\ lastAnalysisTime = 0
    /\ requests = 0
    /\ returned = NoAnalysis

\* new PriceFeedManager(): an empty price cache, nothing fetched yet.
NoPrice == [symbol |-> "none", price |-> 0, timestamp |-> 0, source |-> "none"]
Tokens == {"ethereum", "bitcoin"}
InitFeed ==
    /\ priceCache = [t \in Tokens |-> NoPrice]
    /\ prices = <<>>

\* useGroqAI before the component mounts: the useState initial values, no
\* timer set.  phase is "unmounted" before the mount, "mounted", and "torn down"
\* after the effects' cleanups ran.  interval.isAnalyzing is the isAnalyzing
\* that the performContinuousAnalysis captured by the interval's callback
\* closed over.
NoInterval == [armed |-> FALSE, isAnalyzing |-> FALSE]
InitialHook ==
    [phase |-> "unmounted", isAnalyzing |-> FALSE, marketAnalysis |-> <<>>,
     marketUpdate |-> <<>>, aiOpportunities |-> <<>>, priceHistory |-> 0,
     timer |-> FALSE, interval |-> NoInterval]
InitHook == hook = InitialHook

InitIdle ==
    /\ quotes = <<>>
    /\ opportunities = <<>>
    /\ InitFeed
    /\ InitHook
    /\ apiKey = FALSE
    /\ aiInput = <<>>
    /\ aiOpportunities = <<>>
    /\ InitGroq

\* A fresh browser profile: nothing stored, no call in flight.  The session
\* has an account or not, a contract or not, and the ledger is what it is.
\* One service call at a time is suspended at its remote await.
Init ==
    /\ intents = <<>>
    /\ executions = <<>>
    /\ profits = NoProfits
    /\ \E l \in Ledgers :
          /\ accountId = l[1]
          /\ contract = l[2]
          /\ ledgerIntents = l[3]
          /\ ledgerExecutions = l[4]
    /\ calls = <<NoCall>>
    /\ now = 0
    /\ result = Result("init", TRUE, "none")
    /\ baseline = <<>>
    /\ exported = <<>>
    /\ InitIdle

StoredIntentIds == {i.id : i \in Range(intents)}
UnknownIntentId == <<"intent", 0>>

\* The orchestrator and the remote outcomes of its suspended calls.
Execute ==
    \/ \E id \in StoredIntentIds \cup {UnknownIntentId}, pr \in ExecPrices :
          ExecuteArbitrage(id, pr[1], pr[2])
    \/ \E k \in Slots, withHash \in BOOLEAN : ExecuteRemoteOk(k, withHash)
    \/ \E k \in Slots : ExecuteRemoteFail(k)

\* reconcile, the intents half.
ReconcileIntents ==
    \/ GetUserIntents
    \/ \E k \in Slots : GetUserIntentsOk(k)
    \/ \E k \in Slots : GetUserIntentsFail(k)

\* reconcile, the executions half.
ReconcileExecutions ==
    \/ GetExecutionHistory
    \/ \E k \in Slots : GetExecutionHistoryOk(k)
    \/ \E k \in Slots : GetExecutionHistoryFail(k)

\* Intents: create, pause, resume, execute and reconcile.
NextIntents ==
    \/ \E tp \in TokenPairs, th \in ThresholdInputs, ok \in BOOLEAN : CreateIntent(tp, th, ok)
    \/ \E id \in StoredIntentIds \cup {UnknownIntentId} : PauseIntent(id)
    \/ \E id \in StoredIntentIds \cup {UnknownIntentId} : ResumeIntent(id)
    \/ Execute
    \/ ReconcileIntents

SpecIntents == Init /\ [][NextIntents]_vars

\* Executions and the aggregate profit: execute, appendExecution, reconcile,
\* demo data, import and clearAll.
NextStore ==
    \/ Execute
    \/ ReconcileExecutions
    \/ \E e \in Range(executions) \cup ExecutionPool : SaveExecution(e)
    \/ \E d \in ImportDocuments : ImportData(d)
    \/ ClearAllData
    \/ GenerateDemoData
    \/ Tick

SpecStore == Init /\ [][NextStore]_vars

----
\* Properties of the record store (SpecStore).

\* C1: saving an execution whose id is already stored leaves exactly one
\* record with that id and does not add its profit to the user's total a
\* second time.
C1_SaveExecutionOnce ==
    [][\A e \in Range(executions) :
          SaveExecution(e) =>
              /\ Cardinality({k \in 1..Len(executions') : executions'[k].id = e.id}) = 1
              /\ GetTotalProfitOf(profits', e.user) = GetTotalProfitOf(profits, e.user)]_vars

\* C2: in every reachable store the total profit of each user equals the sum
\* of the profits of that user's stored executions.
C2_TotalProfitIsSum ==
    \A u \in Users : GetTotalProfit(u) = SumProfit(executions, u)

----
\* Properties of the intent lifecycle (SpecIntents).

\* The positions in ints of the intents of i's user with i's key, the pair
\* (token_pair, min_profit_threshold).
WithKey(ints, i) ==
    {j \in 1..Len(ints) :
        /\ ints[j].user = i.user
        /\ ints[j].token_pair = i.token_pair
        /\ ints[j].min_profit_threshold = i.min_profit_threshold}

OnLedger(i) ==
    \E r \in Range(ledgerIntents) :
        /\ r.user = i.user
        /\ r.token_pair = i.token_pair
        /\ r.min_profit_threshold = i.min_profit_threshold

\* C3: when getUserIntents merges the ledger's intents, a key that one local
\* intent of the user and a ledger intent share has exactly one intent in the
\* store after the merge.
C3_OneIntentPerKey ==
    [][\A k \in Slots :
          GetUserIntentsOk(k) =>
              \A l \in Range(calls[k].held) :
                  (OnLedger(l) /\ Cardinality(WithKey(intents, l)) = 1)
                      => Cardinality(WithKey(intents', l)) = 1]_vars

\* A merge has run, a locally created intent shares its key with a ledger
\* intent, and the store holds that key once.
C3_Witness ==
    /\ result = Result("getUserIntents", TRUE, "contract")
    /\ \E i \in Range(intents) :
          /\ i.id[1] = "intent"
          /\ OnLedger(i)
          /\ Cardinality(WithKey(intents, i)) = 1
    /\ \E j \in Range(intents) : j.id[1] = "remote-intent"

IsActive(intentId) ==
    \E i \in Range(intents) : i.id = intentId /\ i.user = accountId /\ i.status = "active"

IsPaused(intentId) ==
    \E i \in Range(intents) : i.id = intentId /\ i.status = "paused"

\* What C5 promises of a step that ends executeArbitrage(intentId, ...).
DemoOutcome(intentId) ==
    /\ result' = Result("executeArbitrage", TRUE, "demo")
    /\ \A i \in Range(intents') : i.id = intentId => i.status = "executed"
    /\ Len(executions') = Len(executions) + 1
    /\ Cardinality({k \in 1..Len(executions') :
                       /\ executions'[k] \notin Range(executions)
                       /\ executions'[k].intent_id = intentId
                       /\ executions'[k].source = "demo"}) = 1

\* C5: when the remote call fails, or there is no contract, executeArbitrage
\* on an active intent returns success with source demo, sets the intent
\* executed and stores exactly one new execution.
C5_DemoExecution ==
    [][/\ \A k \in Slots :
             (ExecuteRemoteFail(k) /\ IsActive(calls[k].held[1].intent_id))
                 => DemoOutcome(calls[k].held[1].intent_id)
       /\ \A id \in StoredIntentIds, pr \in ExecPrices :
             (~contract /\ IsActive(id) /\ ExecuteArbitrage(id, pr[1], pr[2]))
                 => DemoOutcome(id)]_vars

\* The remote call of an execution failed: with a contract present the result
\* is a demo success, the intent is executed and its execution is stored.
C5_Witness ==
    /\ contract
    /\ result = Result("executeArbitrage", TRUE, "demo")
    /\ \E e \in Range(executions) :
          /\ e.source = "demo"
          /\ \E i \in Range(intents) : i.id = e.intent_id /\ i.status = "executed"

\* The status changes the lifecycle allows.
AllowedTransitions ==
    {<<"active", "paused">>, <<"paused", "active">>, <<"active", "executed">>}

\* C6: across pause, resume, execute and reconcile the status of a stored
\* intent changes only active -> paused, paused -> active or active ->
\* executed; an executed intent keeps its status.
C6_StatusTransitions ==
    [][\A i \in Range(intents), j \in Range(intents') :
          (i.id = j.id /\ i.status # j.status)
              => <<i.status, j.status>> \in AllowedTransitions]_vars

\* A step in which a call of executeArbitrage for intentId ends.
ExecuteEnds(intentId) ==
    \/ \E pr \in ExecPrices : ~contract /\ ExecuteArbitrage(intentId, pr[1], pr[2])
    \/ \E k \in Slots, withHash \in BOOLEAN :
          /\ ExecuteRemoteOk(k, withHash)
          /\ calls[k].held[1].intent_id = intentId
    \/ \E k \in Slots :
          /\ ExecuteRemoteFail(k)
          /\ calls[k].held[1].intent_id = intentId

\* C7: executeArbitrage for an intent that is not a stored active intent of
\* the caller fails, stores no execution and leaves the profit table as it
\* was.
C7_ExecuteNeedsActiveIntent ==
    [][\A id \in StoredIntentIds \cup {UnknownIntentId} :
          (ExecuteEnds(id) /\ ~IsActive(id))
              => /\ result' = Result("executeArbitrage", FALSE, "none")
                 /\ executions' = executions
                 /\ profits' = profits]_vars

\* C8: executeArbitrage on a paused intent fails and the intent stays paused.
C8_PausedExecuteRejected ==
    [][\A id \in StoredIntentIds :
          (ExecuteEnds(id) /\ IsPaused(id))
              => /\ result'.ok = FALSE
                 /\ \A i \in Range(intents') : i.id = id => i.status = "paused"]_vars

----
\* Reconciliation on its own: getUserIntents and getExecutionHistory, any
\* number of times and up to MaxCalls of them suspended at once, against a
\* ledger that does not change.

Store(ints, execs, p) == [intents |-> ints, executions |-> execs, profits |-> p]

\* The stores a reconciliation starts from: an empty one; the one
\* generateDemoData leaves at time 0; and the one left by createIntent and an
\* executeArbitrage whose contract call returned the hash the ledger lists.
ReconcileBaselines ==
    LET di == DemoIntents(SessionUser, 0)
        de == DemoExecutions(SessionUser, 0)
        i == Intent(<<"intent", 1>>, SessionUser, "ETH/USDC", "1.5", "executed", 0, "contract")
        e == Execution(<<"execution", 1>>, <<"intent", 1>>, SessionUser, "ETH/USDC",
                       Profit(300000, 295450), <<"hash", 1>>, 0, 300000, 295450,
                       "contract")
    IN {Store(<<>>, <<>>, NoProfits),
        Store(SaveIntentIn(SaveIntentIn(<<>>, di[1]), di[2]),
              SaveExecutionList(SaveExecutionList(<<>>, de[1]), de[2]),
              SaveExecutionProfits(<<de[1]>>,
                  SaveExecutionProfits(<<>>, NoProfits, de[1]), de[2])),
        Store(SaveIntentIn(<<>>, i), SaveExecutionList(<<>>, e),
              SaveExecutionProfits(<<>>, NoProfits, e))}

InitReconcile ==
    /\ \E b \in ReconcileBaselines :
          /\ intents = b.intents
          /\ executions = b.executions
          /\ profits = b.profits
          /\ baseline = b
    /\ accountId = OnlineLedger[1]
    /\ contract = OnlineLedger[2]
    /\ ledgerIntents = OnlineLedger[3]
    /\ ledgerExecutions = OnlineLedger[4]
    /\ exported = <<>>
    /\ calls = [k \in 1..MaxCalls |-> NoCall]
    /\ now = 0
    /\ result = Result("init", TRUE, "none")
    /\ InitIdle

NextReconcile ==
    \/ ReconcileIntents
    \/ ReconcileExecutions

SpecReconcile == InitReconcile /\ [][NextReconcile]_vars

\* What one call of getUserIntents, and one of getExecutionHistory, leaves
\* when it runs alone on the baseline.
SingleCallIntents ==
    MergeIntents(baseline.intents,
                 SelectSeq(baseline.intents, LAMBDA i : i.user = accountId),
                 ledgerIntents)[1]

SingleCallExecutions ==
    MergeExecutions(baseline.executions, baseline.profits,
                    SelectSeq(baseline.executions, LAMBDA e : e.user = accountId),
                    ledgerExecutions)[1]

\* C4: however many reconciliations have run, one after another or
\* overlapping at the remote fetch, the stored intents and executions are
\* those of the baseline or those a single call leaves, no id is stored
\* twice, and once a merge has returned they are those a single call leaves.
C4_ReconcileIdempotent ==
    /\ Range(intents) \in {Range(baseline.intents), Range(SingleCallIntents)}
    /\ Range(executions) \in {Range(baseline.executions), Range(SingleCallExecutions)}
    /\ Cardinality({i.id : i \in Range(intents)}) = Len(intents)
    /\ Cardinality({e.id : e \in Range(executions)}) = Len(executions)
    /\ result = Result("getUserIntents", TRUE, "contract")
          => Range(intents) = Range(SingleCallIntents)
    /\ result = Result("getExecutionHistory", TRUE, "contract")
          => Range(executions) = Range(SingleCallExecutions)

\* Two overlapping merges of the execution history have both returned (the
\* second saved again what the first had saved, which shows in the total) and
\* the intents have been merged too; the store holds what a single call leaves.
C4_Witness ==
    /\ \A k \in Slots : calls[k] = NoCall
    /\ GetTotalProfit(accountId) > SumProfit(executions, accountId)
    /\ Range(executions) = Range(SingleCallExecutions)
    /\ executions # baseline.executions
    /\ Range(intents) = Range(SingleCallIntents)
    /\ intents # baseline.intents

----
\* Opportunity detection (src/src/utils/priceFeeds.ts) and the advisory
\* ranking (src/src/utils/groqAI.ts).  A profit percentage is the pair
\* <<priceDiff * 100, minPrice>> standing for the quotient: <<0, 0>> is NaN
\* and <<d, 0>> with d > 0 is Infinity.

Percentage(priceDiff, minPrice) == <<priceDiff * 100, minPrice>>

\* pct > tenths / 10 as JavaScript evaluates it.
GreaterOrEqual(pct, tenths) ==
    IF pct[2] = 0 THEN pct[1] > 0 ELSE pct[1] * 10 >= tenths * pct[2]

GreaterThan(pct, tenths) ==
    IF pct[2] = 0 THEN pct[1] > 0 ELSE pct[1] * 10 > tenths * pct[2]

\* b.profitPercentage - a.profitPercentage <= 0: a stays before b.
NotLess(a, b) ==
    IF a[2] = 0 \/ b[2] = 0 THEN a[2] = 0 ELSE a[1] * b[2] >= b[1] * a[2]

\* const priorityOrder = { HIGH: 3, MEDIUM: 2, LOW: 1 }
PriorityOrder(priority) ==
    CASE priority = "HIGH" -> 3 [] priority = "MEDIUM" -> 2 [] OTHER -> 1

\* Array.prototype.sort, stable, with the comparator of the caller: by
\* priority, or by profit percentage, descending.
StaysBefore(a, b, byPriority) ==
    IF byPriority
    THEN PriorityOrder(a.executionPriority) >= PriorityOrder(b.executionPriority)
    ELSE NotLess(a.profitPercentage, b.profitPercentage)

RECURSIVE InsertOpportunity(_, _, _)
InsertOpportunity(sorted, o, byPriority) ==
    IF sorted = <<>> THEN <<o>>
    ELSE IF StaysBefore(Head(sorted), o, byPriority)
         THEN <<Head(sorted)>> \o InsertOpportunity(Tail(sorted), o, byPriority)
         ELSE <<o>> \o sorted

RECURSIVE SortOpportunities(_, _)
SortOpportunities(s, byPriority) ==
    IF s = <<>> THEN <<>>
    ELSE InsertOpportunity(SortOpportunities(SubSeq(s, 1, Len(s) - 1), byPriority),
                           s[Len(s)], byPriority)

\* The pairs a detection cycle is asked about.
AllPairs == <<"ETH/USDC", "BTC/USDC", "NEAR/USDC", "SOL/USDC">>
DetectPairs == SubSeq(AllPairs, 1, MaxSymbols)

\* if (profitPercentage > 0.5), in tenths of a percent
MinProfitTenths == 5

\* What fetchNearDexPrices and fetchEthDexPrices return for one token, in
\* cents: nothing when the fetch failed with no cached price, 0 when the
\* response had no usd price, else the price with the venue's variation.
NearQuotes == {<<>>, <<0>>, <<10000>>, <<10100>>}
EthQuotes == {<<>>, <<0>>, <<9950>>, <<10000>>, <<10049>>, <<10050>>, <<10051>>}

Quote(pair, nearPrices, ethPrices) == [pair |-> pair, near |-> nearPrices, eth |-> ethPrices]

\* detectArbitrageOpportunities, one turn of the loop over the pairs, which
\* awaits the two fetches: the candidate is pushed when both venues answered
\* and the percentage is above the threshold.
DetectPair(nearPrices, ethPrices) ==
    /\ result.op = "init"
    /\ Len(quotes) < Len(DetectPairs)
    /\ LET pair == DetectPairs[Len(quotes) + 1]
           nearPrice == nearPrices[1]
           ethPrice == ethPrices[1]
           priceDiff == Abs(nearPrice - ethPrice)
           profitPercentage == Percentage(priceDiff, Min(nearPrice, ethPrice))
       IN /\ quotes' = Append(quotes, Quote(pair, nearPrices, ethPrices))
          /\ opportunities' =
                IF /\ Len(nearPrices) > 0
                   /\ Len(ethPrices) > 0
                   /\ GreaterThan(profitPercentage, MinProfitTenths)
                THEN Append(opportunities,
                            [tokenPair |-> pair, nearPrice |-> nearPrice,
                             ethPrice |-> ethPrice, priceDiff |-> priceDiff,
                             profitPercentage |-> profitPercentage,
                             timestamp |-> now])
                ELSE opportunities
    /\ UNCHANGED <<storeVars, envVars, calls, now, result, feedVars, hook, aiVars>>

\* detectArbitrageOpportunities returns the candidates sorted by profit.
DetectReturn ==
    /\ result.op = "init"
    /\ Len(quotes) = Len(DetectPairs)
    /\ opportunities' = SortOpportunities(opportunities, FALSE)
    /\ result' = Result("detectArbitrageOpportunities", TRUE, "none")
    /\ UNCHANGED <<storeVars, envVars, calls, now, quotes, feedVars, hook, aiVars>>

\* The next detection cycle starts with an empty list.
DetectAgain ==
    /\ result.op = "detectArbitrageOpportunities"
    /\ quotes' = <<>>
    /\ opportunities' = <<>>
    /\ result' = Result("init", TRUE, "none")
    /\ UNCHANGED <<storeVars, envVars, calls, now, feedVars, hook, aiVars>>

InitDetect ==
    /\ intents = <<>>
    /\ executions = <<>>
    /\ profits = NoProfits
    /\ accountId = NoAccount
    /\ contract = FALSE
    /\ ledgerIntents = <<>>
    /\ ledgerExecutions = <<>>
    /\ calls = <<NoCall>>
    /\ now = 0
    /\ result = Result("init", TRUE, "none")
    /\ baseline = <<>>
    /\ exported = <<>>
    /\ InitIdle

NextDetect ==
    \/ \E nearPrices \in NearQuotes, ethPrices \in EthQuotes : DetectPair(nearPrices, ethPrices)
    \/ DetectReturn
    \/ DetectAgain

SpecDetect == InitDetect /\ [][NextDetect]_vars

\* C9: the detector returns a candidate for a pair exactly when both venues
\* quoted it and |A - B| / min(A, B) x 100 is strictly greater than 0.5, that
\* is 200 |A - B| > min(A, B); it never returns two for one pair.
C9_EmitsIffAboveThreshold ==
    \A k \in 1..Len(quotes) :
        LET q == quotes[k]
            emitted == {j \in 1..Len(opportunities) : opportunities[j].tokenPair = q.pair}
            above == /\ q.near # <<>>
                     /\ q.eth # <<>>
                     /\ LET d == Abs(q.near[1] - q.eth[1])
                            m == Min(q.near[1], q.eth[1])
                        IN IF m = 0 THEN d > 0 ELSE 200 * d > m
        IN Cardinality(emitted) = (IF above THEN 1 ELSE 0)

\* A cycle that saw 100.00 against 100.51 for the first pair and 100.00
\* against 100.49 for the second has returned: one candidate, for the first.
C9_Witness ==
    /\ result.op = "detectArbitrageOpportunities"
    /\ Len(quotes) >= 2
    /\ quotes[1].near = <<10000>> /\ quotes[1].eth = <<10051>>
    /\ quotes[2].near = <<10000>> /\ quotes[2].eth = <<10049>>
    /\ Len(opportunities) = 1
    /\ opportunities[1].tokenPair = quotes[1].pair

----
\* GroqAIService.detectArbitrageOpportunities (src/src/utils/groqAI.ts).
\* Prices here are in hundredths of a cent and the demo path's variation is
\* in basis points, chosen so that nearData.price * (1 + variation) and
\* nearData.price * (1 + variation * 0.8) are whole numbers.

AllSymbols == <<"eth", "btc", "near", "sol">>
Symbols == SubSeq(AllSymbols, 1, MaxSymbols)

\* `${nearData.symbol.toUpperCase()}/USDC`
PairOf(symbol) ==
    CASE symbol = "eth" -> "ETH/USDC"
      [] symbol = "btc" -> "BTC/USDC"
      [] symbol = "near" -> "NEAR/USDC"
      [] OTHER -> "SOL/USDC"

\* The fields of an AIAnalysis the ranking reads, as the model answered them
\* or as getEnhancedFallbackAnalysis drew them (confidence 60..99).
Analysis(confidence, riskLevel) == [confidence |-> confidence, riskLevel |-> riskLevel]
Analyses == {Analysis(c, r) : c \in {70, 71, 85, 86}, r \in {"LOW", "HIGH"}}
FallbackAnalyses == {Analysis(c, r) : c \in {70, 86}, r \in {"LOW", "HIGH"}}

\* The demo rule: profitPercentage > 2 ? 'HIGH' : profitPercentage > 1 ?
\* 'MEDIUM' : 'LOW'.
DemoPriority(profitPercentage) ==
    IF GreaterThan(profitPercentage, 20) THEN "HIGH"
    ELSE IF GreaterThan(profitPercentage, 10) THEN "MEDIUM"
    ELSE "LOW"

\* A ranking by profit alone, whatever the analysis says.
PriorityByProfit(profitPercentage, aiAnalysis) == DemoPriority(profitPercentage)

\* calculateExecutionPriority
CalculateExecutionPriority(profitPercentage, aiAnalysis) ==
    IF /\ GreaterThan(profitPercentage, 25)
       /\ aiAnalysis.confidence > 85
       /\ aiAnalysis.riskLevel = "LOW"
    THEN "HIGH"
    ELSE IF GreaterThan(profitPercentage, 12) /\ aiAnalysis.confidence > 70
         THEN "MEDIUM"
         ELSE "LOW"

AiOpportunity(symbol, nearPrice, ethPrice, aiAnalysis, priority) ==
    [tokenPair |-> PairOf(symbol), nearPrice |-> nearPrice, ethPrice |-> ethPrice,
     priceDiff |-> Abs(nearPrice - ethPrice),
     profitPercentage |-> Percentage(Abs(nearPrice - ethPrice), Min(nearPrice, ethPrice)),
     timestamp |-> now, aiAnalysis |-> aiAnalysis, executionPriority |-> priority]

\* One symbol of the input: its near price, its eth price if ethPrices has the
\* symbol, the demo path's random variation in basis points, and the analysis
\* the symbol gets.
AiInput(symbol, nearPrice, ethPrices, variation, aiAnalysis) ==
    [symbol |-> symbol, near |-> nearPrice, eth |-> ethPrices,
     variation |-> variation, analysis |-> aiAnalysis]

\* Near 1.0000 against eth 1.0030, 1.0120, 1.0121, 1.0250 and 1.0251.
KeyedInputs(symbol) ==
    {AiInput(symbol, 10000, <<e>>, 0, a) : e \in {10030, 10120, 10121, 10250, 10251},
                                          a \in Analyses}
    \cup {AiInput(symbol, 10000, <<>>, 0, Analysis(70, "LOW"))}

\* (Math.random() - 0.5) * 0.06 lies in [-3%, 3%).
DemoInputs(symbol) ==
    {AiInput(symbol, p, <<p>>, v, a) : p \in {0, 10000}, v \in {-300, 0, 295},
                                       a \in FallbackAnalyses}
    \cup {AiInput(symbol, 10000, <<>>, 0, Analysis(70, "LOW"))}

\* const maxRetries = 3
maxRetries == 3

\* With an API key, one turn of the loop over nearPrices, which awaits the
\* analysis: above 0.3% the opportunity is pushed with the priority
\* calculateExecutionPriority gives it.  The analysis took one to maxRetries
\* requests, counted up to MaxRequests.
AnalyzePair(in) ==
    /\ apiKey
    /\ result.op = "init"
    /\ Len(aiInput) < Len(Symbols)
    /\ in \in KeyedInputs(Symbols[Len(aiInput) + 1])
    /\ aiInput' = Append(aiInput, in)
    /\ aiOpportunities' =
          IF in.eth = <<>> THEN aiOpportunities
          ELSE LET nearPrice == in.near
                   ethPrice == in.eth[1]
                   profitPercentage ==
                       Percentage(Abs(nearPrice - ethPrice), Min(nearPrice, ethPrice))
               IN IF GreaterThan(profitPercentage, 3)
                  THEN Append(aiOpportunities,
                              AiOpportunity(in.symbol, nearPrice, ethPrice, in.analysis,
                                  CalculateExecutionPriority(profitPercentage, in.analysis)))
                  ELSE aiOpportunities
    /\ \E n \in 1..maxRetries :
          requests' = IF in.eth # <<>> /\ aiOpportunities' # aiOpportunities
                      THEN Min(requests + n, MaxRequests)
                      ELSE requests
    /\ UNCHANGED <<storeVars, envVars, calls, now, result, detectVars, apiKey,
                   analysisHistory, marketUpdates, lastAnalysisTime, returned>>

\* With an API key, the return: sorted by priority.
AnalyzeReturn ==
    /\ apiKey
    /\ result.op = "init"
    /\ Len(aiInput) = Len(Symbols)
    /\ aiOpportunities' = SortOpportunities(aiOpportunities, TRUE)
    /\ result' = Result("detectArbitrageOpportunities", TRUE, "ai")
    /\ UNCHANGED <<storeVars, envVars, calls, now, detectVars, apiKey, aiInput, groqVars>>

\* generateEnhancedDemoOpportunities, the loop: both prices are the near
\* price moved by the variation, the eth price by 0.8 of it.
RECURSIVE CollectDemoOpportunities(_)
CollectDemoOpportunities(ins) ==
    IF ins = <<>> THEN <<>>
    ELSE LET in == ins[Len(ins)]
             rest == CollectDemoOpportunities(SubSeq(ins, 1, Len(ins) - 1))
             nearPrice == (in.near * (10000 + in.variation)) \div 10000
             ethPrice == (in.near * (50000 + 4 * in.variation)) \div 50000
             profitPercentage ==
                 Percentage(Abs(nearPrice - ethPrice), Min(nearPrice, ethPrice))
         IN IF in.eth # <<>> /\ GreaterThan(profitPercentage, 3)
            THEN Append(rest, AiOpportunity(in.symbol, nearPrice, ethPrice, in.analysis,
                                            DemoPriority(profitPercentage)))
            ELSE rest

\* The inputs of the first n symbols, one per symbol.
RECURSIVE DemoInputListsOf(_)
DemoInputListsOf(n) ==
    IF n = 0 THEN {<<>>}
    ELSE {Append(ins, in) : ins \in DemoInputListsOf(n - 1), in \in DemoInputs(Symbols[n])}

DemoInputLists == DemoInputListsOf(Len(Symbols))

\* Without an API key detectArbitrageOpportunities returns
\* generateEnhancedDemoOpportunities(nearPrices, ethPrices), sorted by profit.
GenerateEnhancedDemoOpportunities(ins) ==
    /\ ~apiKey
    /\ result.op = "init"
    /\ aiInput' = ins
    /\ aiOpportunities' = SortOpportunities(CollectDemoOpportunities(ins), FALSE)
    /\ result' = Result("detectArbitrageOpportunities", TRUE, "demo")
    /\ UNCHANGED <<storeVars, envVars, calls, now, detectVars, apiKey, groqVars>>

\* The next analysis cycle (useGroqAI) starts afresh.
AnalyzeAgain ==
    /\ result.op = "detectArbitrageOpportunities"
    /\ aiInput' = <<>>
    /\ aiOpportunities' = <<>>
    /\ result' = Result("init", TRUE, "none")
    /\ UNCHANGED <<storeVars, envVars, calls, now, detectVars, apiKey, groqVars>>

InitAdvisory ==
    /\ intents = <<>>
    /\ executions = <<>>
    /\ profits = NoProfits
    /\ accountId = NoAccount
    /\ contract = FALSE
    /\ ledgerIntents = <<>>
    /\ ledgerExecutions = <<>>
    /\ calls = <<NoCall>>
    /\ now = 0
    /\ result = Result("init", TRUE, "none")
    /\ baseline = <<>>
    /\ exported = <<>>
    /\ quotes = <<>>
    /\ opportunities = <<>>
    /\ InitFeed
    /\ InitHook
    /\ apiKey \in BOOLEAN
    /\ aiInput = <<>>
    /\ aiOpportunities = <<>>
    /\ InitGroq

NextAdvisory ==
    \/ \E in \in KeyedInputs(Symbols[Min(Len(aiInput) + 1, Len(Symbols))]) : AnalyzePair(in)
    \/ AnalyzeReturn
    \/ \E ins \in (IF apiKey \/ result.op # "init" THEN {} ELSE DemoInputLists) :
          GenerateEnhancedDemoOpportunities(ins)
    \/ AnalyzeAgain

SpecAdvisory == InitAdvisory /\ [][NextAdvisory]_vars

\* The priority the ranking rule gives: HIGH when profit > 2.5% (40 times the
\* difference exceeds the lower price), confidence > 85 and risk LOW; else
\* MEDIUM when profit > 1.2% and confidence > 70; else LOW.
RulePriority(o) ==
    LET m == Min(o.nearPrice, o.ethPrice)
    IN IF /\ 40 * o.priceDiff > m
          /\ o.aiAnalysis.confidence > 85
          /\ o.aiAnalysis.riskLevel = "LOW"
       THEN "HIGH"
       ELSE IF 250 * o.priceDiff > 3 * m /\ o.aiAnalysis.confidence > 70
            THEN "MEDIUM"
            ELSE "LOW"

\* C10: every opportunity the advisory-ranked detector holds, with an API key
\* or without one, has the priority the ranking rule gives it.
C10_PriorityFollowsRule ==
    \A k \in 1..Len(aiOpportunities) :
        aiOpportunities[k].executionPriority = RulePriority(aiOpportunities[k])

\* With an API key a cycle returned a HIGH, a MEDIUM or LOW opportunity whose
\* profit is above 2.5%, and all of them ranked.
C10_Witness ==
    /\ apiKey
    /\ result.op = "detectArbitrageOpportunities"
    /\ \E k \in 1..Len(aiOpportunities) : aiOpportunities[k].executionPriority = "HIGH"
    /\ \E k \in 1..Len(aiOpportunities) :
          /\ aiOpportunities[k].executionPriority # "HIGH"
          /\ 40 * aiOpportunities[k].priceDiff
                > Min(aiOpportunities[k].nearPrice, aiOpportunities[k].ethPrice)

\* a comes before b in the ranking: a higher priority, or the same priority
\* and a profit percent that is not lower.
RankedBefore(a, b) ==
    \/ PriorityOrder(a.executionPriority) > PriorityOrder(b.executionPriority)
    \/ /\ a.executionPriority = b.executionPriority
       /\ a.priceDiff * Min(b.nearPrice, b.ethPrice)
             >= b.priceDiff * Min(a.nearPrice, a.ethPrice)

\* C11: the list the advisory-ranked detector returns is sorted by priority,
\* HIGH before MEDIUM before LOW, and within one priority by profit percent
\* descending.
C11_RankedByPriorityThenProfit ==
    result.op = "detectArbitrageOpportunities"
        => \A k \in 1..(Len(aiOpportunities) - 1) :
               RankedBefore(aiOpportunities[k], aiOpportunities[k + 1])

----
\* More properties of the record store and the contract service.

\* C12: every call of executeArbitrage by a signed-in user, whether the
\* contract call succeeded, failed or was not made, stores one new execution
\* whose profit is 0.8 of the price difference and adds that profit to the
\* user's total.
C12_ProfitIsEightTenths ==
    [][\A id \in StoredIntentIds \cup {UnknownIntentId} :
          (IsSignedIn /\ ExecuteEnds(id)) =>
              \E k \in 1..Len(executions') :
                  LET e == executions'[k]
                  IN /\ e \notin Range(executions)
                     /\ e.intent_id = id
                     /\ e.profit * 10 = Abs(e.near_price - e.eth_price) * 8
                     /\ GetTotalProfitOf(profits', e.user)
                           = GetTotalProfitOf(profits, e.user) + e.profit]_vars

\* The contract call of an execution at 3000.00 against 2954.50 succeeded: the
\* execution holds 36.40 and the user's total is at least that.
C12_Witness ==
    /\ result = Result("executeArbitrage", TRUE, "contract")
    /\ \E e \in Range(executions) :
          /\ e.source = "contract"
          /\ e.near_price = 300000 /\ e.eth_price = 295450
          /\ e.profit = 3640
          /\ GetTotalProfit(e.user) >= 3640

----
\* Export, clear and import again (src/src/utils/localStorage.ts:169-217).

\* A document without the profits key.
ExportWithoutProfits(ints, execs, p) ==
    Document(TRUE, TRUE, ints, TRUE, execs, FALSE, NoProfits)

\* exportData: JSON.stringify of {intents, executions, profits, exportedAt}.
\* The text parses, and each of the three keys holds an array or an object,
\* which `if (data.key)` takes as present even when it is empty.
ExportDocument(ints, execs, p) ==
    Document(TRUE, TRUE, ints, TRUE, execs, TRUE, p)

\* exportData(): the caller keeps the text; the store is only read.
ExportData ==
    /\ exported = <<>>
    /\ exported' = <<ExportDocument(intents, executions, profits)>>
    /\ baseline' = Store(intents, executions, profits)
    /\ result' = Result("exportData", TRUE, "none")
    /\ UNCHANGED <<storeVars, accountId, contract, ledgerIntents, ledgerExecutions,
                   calls, now, detectVars, aiVars>>

\* The store is filled by createIntent, saveExecution, generateDemoData and
\* imports; then it is exported, cleared, and the exported text is imported.
NextRoundTrip ==
    \/ /\ exported = <<>>
       /\ \/ \E tp \in TokenPairs, th \in ThresholdInputs, ok \in BOOLEAN :
                CreateIntent(tp, th, ok)
          \/ \E e \in Range(executions) \cup ExecutionPool : SaveExecution(e)
          \/ \E d \in ImportDocuments : ImportData(d)
          \/ GenerateDemoData
          \/ Tick
    \/ ExportData
    \/ result.op = "exportData" /\ ClearAllData
    \/ /\ result.op = "clearAllData"
       /\ exported # <<>>
       /\ ImportData(exported[1])

SpecRoundTrip == Init /\ [][NextRoundTrip]_vars

\* C13: once the exported document has been imported into the cleared store,
\* importData has returned true and the store holds the intents, the
\* executions and every user's total profit it held when it was exported.
C13_RoundTripRestores ==
    (exported # <<>> /\ result.op = "importData") =>
        /\ result.ok
        /\ intents = baseline.intents
        /\ executions = baseline.executions
        /\ \A u \in Users :
              GetTotalProfit(u) = GetTotalProfitOf(baseline.profits, u)

C13_Witness ==
    /\ exported # <<>>
    /\ result.op = "importData"
    /\ intents # <<>>
    /\ executions # <<>>
    /\ \E u \in Users : GetTotalProfit(u) > 0

\* C14: importData either returns true for a document that holds all three
\* collections and replaces all three with them, or returns false and leaves
\* all three as they were; it never replaces only some of them and never
\* returns true for a document that lacks one.
C14_ImportAllOrNothing ==
    [][\A d \in ImportDocuments :
          ImportData(d) =>
              \/ /\ result'.ok
                 /\ d.hasIntents /\ d.hasExecutions /\ d.hasProfits
                 /\ intents' = d.intents
                 /\ executions' = d.executions
                 /\ profits' = d.profits
              \/ /\ ~result'.ok
                 /\ UNCHANGED storeVars]_vars

----
\* GroqAIService, the advisory calls (src/src/utils/groqAI.ts:67-161 and
\* 212-424).  Times are in milliseconds.

\* private readonly ANALYSIS_INTERVAL = 30000
ANALYSIS_INTERVAL == 30000

\* this.analysisHistory.slice(-10), this.marketUpdates.slice(-20)
HistoryLimit == 10
UpdatesLimit == 20

AssessOps == {"analyzeMarketData", "analyzeArbitrageOpportunity"}
AdvisoryOps == AssessOps \cup {"generateContinuousMarketUpdates", "detectArbitrageOpportunities"}

\* The fields of an AIAnalysis that callers read.
AIAnalysis(recommendation, confidence, timestamp, analysisId) ==
    [recommendation |-> recommendation, confidence |-> confidence,
     timestamp |-> timestamp, analysisId |-> analysisId]

\* An AIMarketUpdate.
AIMarketUpdate(confidence, timestamp) == [confidence |-> confidence, timestamp |-> timestamp]

\* getEnhancedFallbackAnalysis(): a random recommendation, a confidence drawn
\* from 60..99, analysisId `fallback_${Date.now()}`.
GetEnhancedFallbackAnalysis ==
    {AIAnalysis(r, c, now, <<"fallback", now>>) : r \in {"BUY", "HOLD"}, c \in {60, 99}}

\* getEnhancedMarketUpdate(marketData): confidence drawn from 70..99.
GetEnhancedMarketUpdate == {AIMarketUpdate(70, now)}

\* What the service answers when its text parses to an analysis; the call
\* then stamps timestamp and analysisId (`analysis_...` or `arb_...`).
ServiceAnalyses(op) ==
    {AIAnalysis(r, c, now, <<IF op = "analyzeMarketData" THEN "analysis" ELSE "arb", now>>) :
        r \in {"BUY", "HOLD"}, c \in {70, 86}}

\* The availability test always passing.
KeyAssumed == TRUE

\* isApiKeyAvailable()
IsApiKeyAvailable == apiKey

\* shouldAnalyze()
ShouldAnalyze == now - lastAnalysisTime >= ANALYSIS_INTERVAL

\* let backoff = 500 (analyzeMarketData), 300 (analyzeArbitrageOpportunity)
InitialBackoff(op) == IF op = "analyzeMarketData" THEN 500 ELSE 300

\* The locals of a call suspended at groq.chat.completions.create, or at the
\* setTimeout of its backoff.
Request(op, retryCount, backoff, attempts, sleeping) ==
    Call(op, <<[retryCount |-> retryCount, backoff |-> backoff,
                attempts |-> attempts, sleeping |-> sleeping]>>)

\* How one attempt can end: the text parses to an analysis; there is no
\* text; the text is not JSON; the text is JSON but no object ("null"), so
\* that setting analysis.timestamp throws; create() throws some error; it
\* throws one whose response.status is 429.
Outcomes == {"ok", "empty", "unparseable", "null", "error", "rate_limit"}

\* A catch block that lets errors other than rate limits through.
HandleRethrows(outcome, retryCount) ==
    IF outcome = "ok" THEN "return"
    ELSE IF outcome = "rate_limit" /\ retryCount < maxRetries - 1 THEN "retry"
    ELSE IF outcome = "error" THEN "throw"
    ELSE "fallback"

\* A catch block that retries whatever was thrown.
HandleRetriesAll(outcome, retryCount) ==
    IF outcome = "ok" THEN "return"
    ELSE IF retryCount < maxRetries - 1 THEN "retry"
    ELSE "fallback"

\* The try/catch around one attempt: return the analysis; or, when
\* error.response?.status === 429 && retryCount < maxRetries - 1, retry; or
\* return the fallback.
Handle(outcome, retryCount) ==
    IF outcome = "ok" THEN "return"
    ELSE IF outcome = "rate_limit" /\ retryCount < maxRetries - 1 THEN "retry"
    ELSE "fallback"

\* return this.getEnhancedFallbackAnalysis()
ReturnFallback(op) ==
    /\ \E a \in GetEnhancedFallbackAnalysis : returned' = a
    /\ result' = Result(op, TRUE, "fallback")

\* The first attempt of a call: the request goes out and the call suspends.
FirstAttempt(op) ==
    /\ requests < MaxRequests
    /\ requests' = requests + 1
    /\ Suspend(Request(op, 0, InitialBackoff(op), 1, FALSE))
    /\ UNCHANGED <<returned, result>>

\* analyzeMarketData(marketData), up to its first await.
AnalyzeMarketData ==
    /\ FreeSlots # {}
    /\ IF ~IsApiKeyAvailable
       THEN ReturnFallback("analyzeMarketData") /\ UNCHANGED <<calls, requests>>
       ELSE IF ~ShouldAnalyze /\ Len(analysisHistory) > 0
            THEN /\ returned' = analysisHistory[Len(analysisHistory)]
                 /\ result' = Result("analyzeMarketData", TRUE, "cache")
                 /\ UNCHANGED <<calls, requests>>
            ELSE FirstAttempt("analyzeMarketData")
    /\ UNCHANGED <<storeVars, envVars, now, detectVars, apiKey, aiInput, aiOpportunities,
                   analysisHistory, marketUpdates, lastAnalysisTime>>

\* analyzeArbitrageOpportunity(nearData, ethData, profitPercentage), up to
\* its first await.
AnalyzeArbitrageOpportunity ==
    /\ FreeSlots # {}
    /\ IF ~IsApiKeyAvailable
       THEN ReturnFallback("analyzeArbitrageOpportunity") /\ UNCHANGED <<calls, requests>>
       ELSE FirstAttempt("analyzeArbitrageOpportunity")
    /\ UNCHANGED <<storeVars, envVars, now, detectVars, apiKey, aiInput, aiOpportunities,
                   analysisHistory, marketUpdates, lastAnalysisTime>>

\* this.analysisHistory.push(analysis), keeping the last HistoryLimit.
PushAnalysis(history, analysis) ==
    LET h == Append(history, analysis)
    IN IF Len(h) > HistoryLimit THEN SubSeq(h, Len(h) - HistoryLimit + 1, Len(h)) ELSE h

\* One attempt of an assess call ends.
AssessAttemptEnds(k, outcome) ==
    /\ calls[k].op \in AssessOps
    /\ ~calls[k].held[1].sleeping
    /\ LET op == calls[k].op
           c == calls[k].held[1]
           h == Handle(outcome, c.retryCount)
       IN IF h = "return"
          THEN /\ \E a \in ServiceAnalyses(op) :
                     /\ returned' = a
                     /\ analysisHistory' = IF op = "analyzeMarketData"
                                           THEN PushAnalysis(analysisHistory, a)
                                           ELSE analysisHistory
               /\ lastAnalysisTime' = IF op = "analyzeMarketData" THEN now
                                      ELSE lastAnalysisTime
               /\ result' = Result(op, TRUE, "ai")
               /\ calls' = [calls EXCEPT ![k] = NoCall]
          ELSE IF h = "retry"
          THEN /\ calls' = [calls EXCEPT ![k] =
                               Request(op, c.retryCount, c.backoff, c.attempts, TRUE)]
               /\ UNCHANGED <<returned, result, analysisHistory, lastAnalysisTime>>
          ELSE IF h = "fallback"
          THEN /\ ReturnFallback(op)
               /\ calls' = [calls EXCEPT ![k] = NoCall]
               /\ UNCHANGED <<analysisHistory, lastAnalysisTime>>
          ELSE /\ result' = Result(op, FALSE, "error")
               /\ calls' = [calls EXCEPT ![k] = NoCall]
               /\ UNCHANGED <<returned, analysisHistory, lastAnalysisTime>>
    /\ UNCHANGED <<storeVars, envVars, now, detectVars, apiKey, aiInput, aiOpportunities,
                   marketUpdates, requests>>

\* The backoff has elapsed: backoff *= 1.5; retryCount++; and the loop
\* sends the next request.
BackoffElapsed(k) ==
    /\ calls[k].op \in AssessOps
    /\ calls[k].held[1].sleeping
    /\ LET c == calls[k].held[1]
       IN /\ now + c.backoff <= MaxClock
          /\ now' = now + c.backoff
          /\ c.retryCount + 1 < maxRetries
          /\ requests < MaxRequests
          /\ requests' = requests + 1
          /\ calls' = [calls EXCEPT ![k] =
                          Request(calls[k].op, c.retryCount + 1, (c.backoff * 3) \div 2,
                                  c.attempts + 1, FALSE)]
    /\ UNCHANGED <<storeVars, envVars, result, detectVars, apiKey, aiInput, aiOpportunities,
                   analysisHistory, marketUpdates, lastAnalysisTime, returned>>

\* generateContinuousMarketUpdates(marketData), up to its await.
GenerateContinuousMarketUpdates ==
    /\ FreeSlots # {}
    /\ IF ~IsApiKeyAvailable
       THEN /\ \E u \in GetEnhancedMarketUpdate : returned' = u
            /\ result' = Result("generateContinuousMarketUpdates", TRUE, "fallback")
            /\ UNCHANGED <<calls, requests>>
       ELSE /\ Len(marketUpdates) < MaxUpdates
            /\ requests < MaxRequests
            /\ requests' = requests + 1
            /\ Suspend(Request("generateContinuousMarketUpdates", 0, 0, 1, FALSE))
            /\ UNCHANGED <<returned, result>>
    /\ UNCHANGED <<storeVars, envVars, now, detectVars, apiKey, aiInput, aiOpportunities,
                   analysisHistory, marketUpdates, lastAnalysisTime>>

\* this.marketUpdates.push(update), keeping the last UpdatesLimit.
PushUpdate(updates, update) ==
    LET h == Append(updates, update)
    IN IF Len(h) > UpdatesLimit THEN SubSeq(h, Len(h) - UpdatesLimit + 1, Len(h)) ELSE h

\* Its request ends: the update is stored and returned, or anything thrown
\* is caught and getEnhancedMarketUpdate returned.  There is no retry.
MarketUpdateEnds(k, outcome) ==
    /\ calls[k].op = "generateContinuousMarketUpdates"
    /\ IF outcome = "ok"
       THEN /\ returned' = AIMarketUpdate(50, now)
            /\ marketUpdates' = PushUpdate(marketUpdates, returned')
            /\ result' = Result("generateContinuousMarketUpdates", TRUE, "ai")
       ELSE /\ \E u \in GetEnhancedMarketUpdate : returned' = u
            /\ result' = Result("generateContinuousMarketUpdates", TRUE, "fallback")
            /\ UNCHANGED marketUpdates
    /\ calls' = [calls EXCEPT ![k] = NoCall]
    /\ UNCHANGED <<storeVars, envVars, now, detectVars, apiKey, aiInput, aiOpportunities,
                   analysisHistory, lastAnalysisTime, requests>>

\* Time passes between calls and while a request is out.
Waits == {15000}
Wait(ms) ==
    /\ now + ms <= MaxClock
    /\ now' = now + ms
    /\ UNCHANGED <<storeVars, envVars, calls, result, detectVars, aiVars>>

\* A service just constructed, with a key or without one; the clock reads
\* more than ANALYSIS_INTERVAL, as Date.now() does.
InitAssess ==
    /\ intents = <<>>
    /\ executions = <<>>
    /\ profits = NoProfits
    /\ accountId = NoAccount
    /\ contract = FALSE
    /\ ledgerIntents = <<>>
    /\ ledgerExecutions = <<>>
    /\ calls = <<NoCall>>
    /\ now = ANALYSIS_INTERVAL
    /\ result = Result("init", TRUE, "none")
    /\ baseline = <<>>
    /\ exported = <<>>
    /\ quotes = <<>>
    /\ opportunities = <<>>
    /\ InitFeed
    /\ InitHook
    /\ apiKey \in BOOLEAN
    /\ aiInput = <<>>
    /\ aiOpportunities = <<>>
    /\ InitGroq

NextAssess ==
    \/ AnalyzeMarketData
    \/ AnalyzeArbitrageOpportunity
    \/ \E k \in Slots, outcome \in Outcomes : AssessAttemptEnds(k, outcome)
    \/ \E k \in Slots : BackoffElapsed(k)
    \/ GenerateContinuousMarketUpdates
    \/ \E k \in Slots, outcome \in Outcomes : MarketUpdateEnds(k, outcome)
    \/ \E ins \in (IF apiKey \/ result.op # "init" THEN {} ELSE DemoInputLists) :
          GenerateEnhancedDemoOpportunities(ins)
    \/ AnalyzeAgain
    \/ \E ms \in Waits : Wait(ms)

SpecAssess == InitAssess /\ [][NextAssess]_vars

\* An AdvisoryResult: an action and a confidence from 0 to 100.
IsAdvisoryResult(a) ==
    /\ "recommendation" \in DOMAIN a
    /\ a.recommendation \in {"BUY", "SELL", "HOLD", "WAIT"}
    /\ a.confidence \in 0..100

C16_RetryBudget ==
    [][\A k \in Slots :
          /\ calls'[k].op \in AssessOps =>
                LET c == calls'[k].held[1]
                IN /\ c.attempts <= maxRetries
                   /\ c.attempts = c.retryCount + 1
                   /\ c.backoff * (2 ^ c.retryCount)
                         = InitialBackoff(calls'[k].op) * (3 ^ c.retryCount)
          /\ \A outcome \in Outcomes \ {"rate_limit"} :
                AssessAttemptEnds(k, outcome) => calls'[k] = NoCall
          /\ (AssessAttemptEnds(k, "rate_limit") /\ calls[k].held[1].attempts = maxRetries)
                => /\ calls'[k] = NoCall
                   /\ result' = Result(calls[k].op, TRUE, "fallback")
          /\ BackoffElapsed(k) =>
                /\ requests' = requests + 1
                /\ now' >= now + calls[k].held[1].backoff
                /\ calls'[k].held[1].attempts = calls[k].held[1].attempts + 1
                /\ calls'[k].held[1].backoff * 2 = calls[k].held[1].backoff * 3]_vars

\* analyzeMarketData, called on a fresh service, was rate limited three times
\* (it waited 500 ms and 750 ms) and returned the fallback.
C16_Witness ==
    /\ apiKey
    /\ requests = maxRetries
    /\ now = ANALYSIS_INTERVAL + 1250
    /\ result = Result("analyzeMarketData", TRUE, "fallback")
    /\ \A k \in Slots : calls[k] = NoCall

\* C17: when analyzeMarketData or analyzeArbitrageOpportunity is called less
\* than 30 s after the result the previous call of the same operation
\* returned, it returns that result and sends no request.
C17_CachedWithinWindow ==
    [][\A op \in AssessOps :
          (/\ result.op = op
           /\ IsAdvisoryResult(returned)
           /\ now - returned.timestamp < ANALYSIS_INTERVAL
           /\ IF op = "analyzeMarketData" THEN AnalyzeMarketData
              ELSE AnalyzeArbitrageOpportunity)
          => /\ returned' = returned
             /\ requests' = requests
             /\ calls' = calls]_vars

\* C18: without an API key no request is ever sent, no call is suspended at
\* one, and every advisory operation that has completed (analyzeMarketData,
\* analyzeArbitrageOpportunity, generateContinuousMarketUpdates,
\* detectArbitrageOpportunities) returned normally with the fallback, the
\* fallback update or the demo opportunities.
C18_NoKeyNoRequest ==
    ~apiKey =>
        /\ requests = 0
        /\ \A k \in Slots : calls[k] = NoCall
        /\ result.op \in AdvisoryOps =>
              /\ result.ok
              /\ result.source \in {"fallback", "demo"}
        /\ result.op \in AssessOps
              => returned.analysisId = <<"fallback", returned.timestamp>>
        /\ result.op = "generateContinuousMarketUpdates"
              => returned = AIMarketUpdate(70, returned.timestamp)
        /\ result.op = "detectArbitrageOpportunities"
              => \A k \in 1..Len(aiOpportunities) :
                    aiOpportunities[k].aiAnalysis \in FallbackAnalyses

\* Without a key the demo opportunities were produced, and later
\* generateContinuousMarketUpdates returned the fallback update.
C18_Witness ==
    /\ ~apiKey
    /\ aiOpportunities # <<>>
    /\ result = Result("generateContinuousMarketUpdates", TRUE, "fallback")
    /\ returned = AIMarketUpdate(70, now)

----
\* useNear.executeArbitrageWithAI (src/unnamed/part_007:103-156), the
\* recommendation it asks for (src/src/hooks/useGroqAI.ts:157-209) and the
\* dashboard handler that calls it (src/src/pages/DashboardPage.tsx:76-106).

\* profitPercentage < userThreshold as JavaScript evaluates it; the
\* threshold is <<n>> for n tenths of a percent and <<>> for NaN.
LessThan(pct, threshold) ==
    IF IsNaN(threshold) \/ pct[2] = 0 THEN FALSE
    ELSE pct[1] * 10 < threshold[1] * pct[2]

\* A gate that lets a BUY of confidence 70 through.
ShouldExecuteFromSeventy(analysis) ==
    analysis.recommendation = "BUY" /\ analysis.confidence >= 70

\* shouldExecute: analysis.recommendation === 'BUY' && analysis.confidence > 70
ShouldExecute(analysis) ==
    analysis.recommendation = "BUY" /\ analysis.confidence > 70

\* The (near, eth) prices of a recommendation, in cents: 1.54%, exactly
\* 1.5% and 1.0% apart.
AIPrices == {<<300000, 295450>>, <<101500, 100000>>, <<101000, 100000>>}

AICall == {k \in Slots : calls[k].op = "executeArbitrageWithAI"}
Pending(ops) == {k \in Slots : calls[k].op \in ops}

\* executeArbitrageWithAI up to the await inside getTradeRecommendation:
\* below the threshold the recommendation is shouldExecute: false and the
\* call throws; otherwise it waits for analyzeArbitrageOpportunity.  The
\* prices go to executeArbitrage as nearPrice.toString(), which parseFloat
\* reads back as the same number.
ExecuteArbitrageWithAI(intentId, tokenPair, nearPrice, ethPrice, minThreshold) ==
    LET profitPercentage ==
            Percentage(Abs(nearPrice - ethPrice), Min(nearPrice, ethPrice))
    IN /\ baseline' = Store(intents, executions, profits)
       /\ IF LessThan(profitPercentage, minThreshold)
          THEN /\ result' = Result("executeArbitrageWithAI", FALSE, "error")
               /\ UNCHANGED <<calls, returned>>
          ELSE /\ Suspend(Call("executeArbitrageWithAI",
                               <<[id |-> intentId, tokenPair |-> tokenPair,
                                  nearPrice |-> nearPrice, ethPrice |-> ethPrice,
                                  minThreshold |-> minThreshold]>>))
               /\ returned' = NoAnalysis
               /\ UNCHANGED result
       /\ UNCHANGED <<storeVars, accountId, contract, ledgerIntents, ledgerExecutions,
                      exported, now, detectVars, apiKey, aiInput, aiOpportunities,
                      analysisHistory, marketUpdates, lastAnalysisTime, requests>>

\* handleAIRecommendation: the first active intent of the user with the
\* recommendation's token pair is executed with its own threshold.
HandleAIRecommendation(tokenPair, nearPrice, ethPrice) ==
    /\ \A k \in Slots : calls[k] = NoCall
    /\ LET matching == SelectSeq(GetIntents(accountId),
                           LAMBDA i : i.token_pair = tokenPair /\ i.status = "active")
       IN /\ matching # <<>>
          /\ ExecuteArbitrageWithAI(matching[1].id, tokenPair, nearPrice, ethPrice,
                                    ParseFloat(matching[1].min_profit_threshold))

\* getTradeRecommendation calls groqAI.analyzeArbitrageOpportunity.
RecommendationAsked ==
    /\ AICall # {}
    /\ returned = NoAnalysis
    /\ Pending(AssessOps) = {}
    /\ AnalyzeArbitrageOpportunity

\* The analysis has arrived: without shouldExecute the call throws, with it
\* nearContract.executeArbitrage is called.
RecommendationReturned ==
    /\ AICall # {}
    /\ returned # NoAnalysis
    /\ result.op = "analyzeArbitrageOpportunity"
    /\ Pending(AssessOps \cup {"executeArbitrage"}) = {}
    /\ LET k == CHOOSE j \in AICall : TRUE
           c == calls[k].held[1]
       IN IF ~ShouldExecute(returned)
          THEN /\ result' = Result("executeArbitrageWithAI", FALSE, "error")
               /\ calls' = [calls EXCEPT ![k] = NoCall]
               /\ UNCHANGED <<storeVars, envVars, now, detectVars, aiVars>>
          ELSE ExecuteArbitrage(c.id, c.nearPrice, c.ethPrice)

\* executeArbitrage has returned or thrown, and so does executeArbitrageWithAI.
ExecuteArbitrageWithAIEnds ==
    /\ AICall # {}
    /\ result.op = "executeArbitrage"
    /\ Pending({"executeArbitrage"}) = {}
    /\ result' = Result("executeArbitrageWithAI", result.ok, result.source)
    /\ calls' = [calls EXCEPT ![CHOOSE j \in AICall : TRUE] = NoCall]
    /\ UNCHANGED <<storeVars, envVars, now, detectVars, aiVars>>

\* Any session, with an API key or without one; up to MaxCalls calls can be
\* suspended, the outer one and the one it awaits.
InitExecuteAI ==
    /\ intents = <<>>
    /\ executions = <<>>
    /\ profits = NoProfits
    /\ \E l \in Ledgers :
          /\ accountId = l[1]
          /\ contract = l[2]
          /\ ledgerIntents = l[3]
          /\ ledgerExecutions = l[4]
    /\ calls = [k \in 1..MaxCalls |-> NoCall]
    /\ now = 0
    /\ result = Result("init", TRUE, "none")
    /\ baseline = <<>>
    /\ exported = <<>>
    /\ quotes = <<>>
    /\ opportunities = <<>>
    /\ InitFeed
    /\ InitHook
    /\ apiKey \in BOOLEAN
    /\ aiInput = <<>>
    /\ aiOpportunities = <<>>
    /\ InitGroq

NextExecuteAI ==
    \/ /\ \A k \in Slots : calls[k] = NoCall
       /\ \E tp \in TokenPairs, th \in ThresholdInputs, ok \in BOOLEAN :
             CreateIntent(tp, th, ok)
    \/ \E tp \in TokenPairs, pr \in AIPrices : HandleAIRecommendation(tp, pr[1], pr[2])
    \/ RecommendationAsked
    \/ \E k \in Slots, outcome \in Outcomes : AssessAttemptEnds(k, outcome)
    \/ \E k \in Slots : BackoffElapsed(k)
    \/ RecommendationReturned
    \/ \E k \in Slots, withHash \in BOOLEAN : ExecuteRemoteOk(k, withHash)
    \/ \E k \in Slots : ExecuteRemoteFail(k)
    \/ ExecuteArbitrageWithAIEnds

SpecExecuteAI == InitExecuteAI /\ [][NextExecuteAI]_vars

\* C19: an execution is stored only while the analysis in hand recommends
\* BUY with confidence above 70 and the execution's price difference is at
\* least the threshold of its intent; and when executeArbitrageWithAI ends,
\* at once or after its awaits, either it threw and the store is what it
\* was when the call began, or it returned and an execution has been stored.
C19_ExecutesOnlyOnConfidentBuy ==
    [][/\ \A e \in Range(executions') \ Range(executions) :
             /\ IsAdvisoryResult(returned)
             /\ returned.recommendation = "BUY"
             /\ returned.confidence > 70
             /\ \E i \in Range(intents) :
                   /\ i.id = e.intent_id
                   /\ ParseFloat(i.min_profit_threshold) # <<>>
                   /\ e.price_diff * 1000
                         >= ParseFloat(i.min_profit_threshold)[1]
                               * Min(e.near_price, e.eth_price)
       /\ (AICall # {} /\ AICall' = {}) =>
             /\ result'.op = "executeArbitrageWithAI"
             /\ IF result'.ok
                THEN Range(executions') # Range(baseline.executions)
                ELSE Store(intents', executions', profits') = baseline
       /\ \A tp \in TokenPairs, pr \in AIPrices :
             (HandleAIRecommendation(tp, pr[1], pr[2]) /\ AICall' = {}) =>
                 /\ result' = Result("executeArbitrageWithAI", FALSE, "error")
                 /\ UNCHANGED storeVars]_vars

\* A confident BUY on a pair exactly 1.5% apart, the intent's threshold, was
\* executed; and the store holds it.
C19_Witness ==
    /\ result.op = "executeArbitrageWithAI"
    /\ result.ok
    /\ returned.recommendation = "BUY"
    /\ returned.confidence > 70
    /\ \E e \in Range(executions) : e.near_price = 101500 /\ e.eth_price = 100000

----
\* Overlapping calls of executeArbitrage (src/src/utils/nearContract.ts:
\* 861-942): a second call for an intent is made before any call for it has
\* stored its execution.

InitOverlap ==
    /\ intents = <<>>
    /\ executions = <<>>
    /\ profits = NoProfits
    /\ \E l \in Ledgers :
          /\ accountId = l[1]
          /\ contract = l[2]
          /\ ledgerIntents = l[3]
          /\ ledgerExecutions = l[4]
    /\ calls = [k \in 1..MaxCalls |-> NoCall]
    /\ now = 0
    /\ result = Result("init", TRUE, "none")
    /\ baseline = <<>>
    /\ exported = <<>>
    /\ InitIdle

NextOverlap ==
    \/ /\ \A k \in Slots : calls[k] = NoCall
       /\ \E tp \in TokenPairs, th \in ThresholdInputs, ok \in BOOLEAN :
             CreateIntent(tp, th, ok)
    \/ \E id \in StoredIntentIds, pr \in ExecPrices :
          /\ \A e \in Range(executions) : e.intent_id # id
          /\ ExecuteArbitrage(id, pr[1], pr[2])
    \/ \E k \in Slots, withHash \in BOOLEAN : ExecuteRemoteOk(k, withHash)
    \/ \E k \in Slots : ExecuteRemoteFail(k)
    \/ Tick

SpecOverlap == InitOverlap /\ [][NextOverlap]_vars

\* C20: when calls of executeArbitrage for one intent overlap, at most one
\* execution is stored for the intent and the user's total profit holds the
\* profit of one execution.
C20_NoDoubleExecution ==
    \A id \in StoredIntentIds :
        LET stored == {k \in 1..Len(executions) : executions[k].intent_id = id}
        IN /\ Cardinality(stored) <= 1
           /\ \A k \in stored :
                 GetTotalProfit(executions[k].user) <= executions[k].profit

----
\* Reconciliation when the ledger cannot be read (src/src/utils/nearContract.ts:
\* 746-803 and 944-1005).  Operations run one at a time: nothing else writes
\* the store while a view call is pending.

\* localIntents.sort((a, b) => parseInt(b.created_at) - parseInt(a.created_at))
RECURSIVE InsertByCreatedAt(_, _)
InsertByCreatedAt(sorted, i) ==
    IF sorted = <<>> THEN <<i>>
    ELSE IF Head(sorted).created_at >= i.created_at
         THEN <<Head(sorted)>> \o InsertByCreatedAt(Tail(sorted), i)
         ELSE <<i>> \o sorted

RECURSIVE SortByCreatedAt(_)
SortByCreatedAt(s) ==
    IF s = <<>> THEN <<>>
    ELSE InsertByCreatedAt(SortByCreatedAt(SubSeq(s, 1, Len(s) - 1)), s[Len(s)])

Idle == \A k \in Slots : calls[k] = NoCall

NextFallback ==
    \/ Idle /\ \E tp \in TokenPairs, th \in ThresholdInputs, ok \in BOOLEAN :
                  CreateIntent(tp, th, ok)
    \/ Idle /\ \E id \in StoredIntentIds : PauseIntent(id)
    \/ Idle /\ \E e \in ExecutionPool : SaveExecution(e)
    \/ Idle /\ GenerateDemoData
    \/ Execute
    \/ ReconcileIntents
    \/ ReconcileExecutions

SpecFallback == Init /\ [][NextFallback]_vars

\* C21: a getUserIntents or getExecutionHistory whose view call threw, or
\* that ran without a contract or without an account, returns normally and
\* changes no stored intent, execution or total; after a throw what it
\* returns is the user's records as the store holds them.
C21_ReconcileFallsBackToLocal ==
    [][/\ \A k \in Slots :
             /\ GetUserIntentsFail(k) =>
                   /\ result' = Result("getUserIntents", TRUE, "local")
                   /\ UNCHANGED storeVars
                   /\ Range(SortByCreatedAt(calls[k].held)) = Range(GetIntents(accountId))
             /\ GetExecutionHistoryFail(k) =>
                   /\ result' = Result("getExecutionHistory", TRUE, "local")
                   /\ UNCHANGED storeVars
                   /\ Range(SortByTimestamp(calls[k].held))
                         = Range(GetExecutions(accountId))
       /\ ((GetUserIntents \/ GetExecutionHistory) /\ ~(contract /\ IsSignedIn)) =>
             /\ result'.ok
             /\ result'.source = "local"
             /\ UNCHANGED storeVars]_vars

\* With a contract, a getUserIntents whose view call threw has returned and
\* the store holds an intent and an execution.
C21_Witness ==
    /\ contract
    /\ result = Result("getUserIntents", TRUE, "local")
    /\ intents # <<>>
    /\ executions # <<>>

----
\* Validation in createIntent (src/src/utils/nearContract.ts:647-744).

\* What a caller may pass: a pair or the empty string, and threshold strings
\* on both sides of each limit, unparsable ones and one with a numeric prefix.
PairInputs == TokenPairs \cup {""}
CreateThresholds == ThresholdInputs \cup {"100", "-1", "1.5abc"}

NextCreate ==
    \/ \E tp \in PairInputs, th \in CreateThresholds, ok \in BOOLEAN :
          CreateIntent(tp, th, ok)
    \/ \E id \in StoredIntentIds : PauseIntent(id)
    \/ \E id \in StoredIntentIds : ResumeIntent(id)
    \/ ClearAllData
    \/ Tick

SpecCreate == Init /\ [][NextCreate]_vars

----
\* An execution settled on the ledger and read back by getExecutionHistory
\* (src/src/utils/nearContract.ts:896-925 and 966-992).

\* The record the ledger keeps of a settled execute_arbitrage call: its own
\* id and the hash of the settling transaction.
RemoteRecord(newExecution) ==
    [newExecution EXCEPT !.id = <<"remote-execution", newExecution.id[2]>>,
                         !.tx_hash = <<"hash", newExecution.id[2]>>,
                         !.source = "contract"]

\* The contract call of executeArbitrage returned and the ledger holds the
\* settled execution; the outcome carries the transaction hash or does not
\* (result.transaction?.hash || newExecution.tx_hash, line 912).
ExecuteSettled(k, withHash) ==
    /\ calls[k].op = "executeArbitrage"
    /\ Len(ledgerExecutions) < MaxExecutions
    /\ LET built == calls[k].held[1]
           newExecution ==
               [built EXCEPT !.tx_hash = IF withHash THEN <<"hash", built.id[2]>>
                                         ELSE built.tx_hash,
                             !.source = "contract"]
       IN /\ ExecuteTail(newExecution)
          /\ ledgerExecutions' = Append(ledgerExecutions, RemoteRecord(built))
    /\ calls' = [calls EXCEPT ![k] = NoCall]
    /\ UNCHANGED <<accountId, contract, ledgerIntents, baseline, exported,
                   now, detectVars, aiVars>>

\* Signed in with a contract whose ledger is empty.
InitSettle ==
    /\ intents = <<>>
    /\ executions = <<>>
    /\ profits = NoProfits
    /\ accountId = SessionUser
    /\ contract = TRUE
    /\ ledgerIntents = <<>>
    /\ ledgerExecutions = <<>>
    /\ calls = <<NoCall>>
    /\ now = 0
    /\ result = Result("init", TRUE, "none")
    /\ baseline = <<>>
    /\ exported = <<>>
    /\ InitIdle

NextSettle ==
    \/ \E tp \in TokenPairs, ok \in BOOLEAN : CreateIntent(tp, "1.5", ok)
    \/ \E id \in StoredIntentIds : PauseIntent(id)
    \/ \E id \in StoredIntentIds \cup {UnknownIntentId}, pr \in ExecPrices :
          ExecuteArbitrage(id, pr[1], pr[2])
    \/ \E k \in Slots, withHash \in BOOLEAN : ExecuteSettled(k, withHash)
    \/ \E k \in Slots : ExecuteRemoteFail(k)
    \/ ReconcileExecutions
    \/ Tick

SpecSettle == InitSettle /\ [][NextSettle]_vars

\* C23: when getExecutionHistory, called after an executeArbitrage settled
\* on the ledger, fetches the ledger's record of that execution, the store
\* still holding the execution it saved, holds one execution for it
\* afterwards and the user's total is what it was: the profit is in it once.
C23_SettledExecutionStoredOnce ==
    [][\A k \in Slots :
          (/\ GetExecutionHistoryOk(k)
           /\ \A r \in Range(ledgerExecutions) :
                 \E e \in Range(calls[k].held) \cap Range(executions) :
                     e.id[2] = r.id[2]) =>
              /\ \A r \in Range(ledgerExecutions) :
                    Cardinality({j \in 1..Len(executions') :
                                    executions'[j].id[2] = r.id[2]}) = 1
              /\ GetTotalProfitOf(profits', accountId) = GetTotalProfitOf(profits, accountId)]_vars

----
\* Ledger records that carry no transaction hash
\* (src/src/utils/nearContract.ts:966-992).

\* contractExecution.tx_hash of a record without the field: undefined, which
\* === makes equal to itself.
Undefined == <<"undefined", 0>>

\* Two executions on the ledger, at different times, neither with a hash.
UnhashedLedger ==
    <<[LedgerExecution(1, 0, 4000, 0) EXCEPT !.tx_hash = Undefined],
      [LedgerExecution(2, 0, 4000, 1) EXCEPT !.tx_hash = Undefined]>>

InitUnhashed ==
    /\ intents = <<>>
    /\ executions = <<>>
    /\ profits = NoProfits
    /\ accountId = SessionUser
    /\ contract = TRUE
    /\ ledgerIntents = <<>>
    /\ ledgerExecutions = UnhashedLedger
    /\ calls = <<NoCall>>
    /\ now = 0
    /\ result = Result("init", TRUE, "none")
    /\ baseline = <<>>
    /\ exported = <<>>
    /\ InitIdle

NextUnhashed ==
    \/ \E tp \in TokenPairs, ok \in BOOLEAN : CreateIntent(tp, "1.5", ok)
    \/ \E id \in StoredIntentIds : PauseIntent(id)
    \/ Execute
    \/ ReconcileExecutions
    \/ \E e \in ExecutionPool : SaveExecution(e)
    \/ ClearAllData
    \/ Tick

SpecUnhashed == InitUnhashed /\ [][NextUnhashed]_vars

\* C24: after a getExecutionHistory whose view call returned, every
\* execution of the ledger has a stored counterpart: one with its hash, or,
\* when it has no hash, one with its token pair and timestamp.
C24_EveryRemoteExecutionStored ==
    [][\A k \in Slots :
          GetExecutionHistoryOk(k) =>
              \A r \in Range(ledgerExecutions) :
                  \E e \in Range(executions') :
                      IF r.tx_hash # Undefined
                      THEN e.tx_hash = r.tx_hash
                      ELSE e.token_pair = r.token_pair /\ e.timestamp = r.timestamp]_vars

----
\* Stored executions under later writes (src/src/utils/localStorage.ts:94-116).

\* Executions a caller may pass to saveExecution: the pool's, and for each a
\* second one with the same id and another profit.
Revisions == ExecutionPool \cup {[e EXCEPT !.profit = 5000] : e \in ExecutionPool}

NextAppend ==
    \/ \E e \in Range(executions) \cup Revisions : SaveExecution(e)
    \/ ReconcileExecutions
    \/ \E d \in ImportDocuments : ImportData(d)
    \/ ClearAllData
    \/ GenerateDemoData
    \/ Tick

SpecAppend == Init /\ [][NextAppend]_vars

\* C25: a step that is neither clearAllData nor importData leaves every
\* stored execution in the store with every field as it was.
C25_ExecutionsImmutable ==
    [][(~ClearAllData /\ ~(\E d \in ImportDocuments : ImportData(d))) =>
          Range(executions) \subseteq Range(executions')]_vars

----
\* Ids in the store (src/src/utils/localStorage.ts:33-49, 94-104, 195-217).

\* A document that parses and lists one id twice in each collection.
RepeatingDocuments ==
    LET i == Intent(<<"intent", 80>>, "alice", "BTC/USDC", "2.0", "paused", 0, "demo")
        e == Execution(<<"execution", 80>>, <<"intent", 80>>, "alice", "BTC/USDC",
                       360, <<"tx", 80>>, 0, 295450, 295000, "demo")
    IN {Document(TRUE, TRUE, <<i, [i EXCEPT !.status = "active"]>>,
                 TRUE, <<e, e>>, TRUE, [u \in {"alice"} |-> 360])}

NextUnique ==
    \/ Idle /\ \E tp \in TokenPairs, ok \in BOOLEAN : CreateIntent(tp, "1.5", ok)
    \/ Idle /\ \E e \in ExecutionPool : SaveExecution(e)
    \/ Execute
    \/ ReconcileIntents
    \/ ReconcileExecutions
    \/ Idle /\ \E d \in ImportDocuments \cup RepeatingDocuments : ImportData(d)

SpecUnique == Init /\ [][NextUnique]_vars

\* C26: no two stored intents have the same id and no two stored executions
\* have the same id.
C26_IdsUnique ==
    /\ \A j, k \in 1..Len(intents) : intents[j].id = intents[k].id => j = k
    /\ \A j, k \in 1..Len(executions) : executions[j].id = executions[k].id => j = k

----
\* The price sampler (src/src/utils/priceFeeds.ts:19-61).

CACHE_DURATION == 30000

\* What the reference source does for one token: the request throws, the
\* response has no usd value for the token, or it has a price, in cents.
Throws == -1
NoValue == 0
FeedPrices == {10000, 10100}
FeedOutcomes == {Throws, NoValue} \cup FeedPrices

PriceData(symbol, price, timestamp, source) ==
    [symbol |-> symbol, price |-> price, timestamp |-> timestamp, source |-> source]

\* The loop of fetchPrices over the tokens: a cached price younger than
\* CACHE_DURATION is pushed; else the response's price, or 0 when it has
\* none (response.data[token]?.usd || 0), is cached and pushed; when the
\* request throws the cached price is pushed if there is one.
\* <<priceCache, prices>>.
RECURSIVE FetchLoop(_, _, _, _)
FetchLoop(cache, tokens, outcomes, acc) ==
    IF tokens = <<>> THEN <<cache, acc>>
    ELSE LET token == Head(tokens)
             cached == cache[token]
             price == PriceData(token, Head(outcomes), now, "coingecko")
         IN IF cached # NoPrice /\ now - cached.timestamp < CACHE_DURATION
            THEN FetchLoop(cache, Tail(tokens), Tail(outcomes), Append(acc, cached))
            ELSE IF Head(outcomes) = Throws
                 THEN FetchLoop(cache, Tail(tokens), Tail(outcomes),
                                IF cached # NoPrice THEN Append(acc, cached) ELSE acc)
                 ELSE FetchLoop([cache EXCEPT ![token] = price], Tail(tokens),
                                Tail(outcomes), Append(acc, price))

\* fetchPrices(tokens)
FetchPrices(tokens, outcomes) ==
    /\ LET fetched == FetchLoop(priceCache, tokens, outcomes, <<>>)
       IN /\ priceCache' = fetched[1]
          /\ prices' = fetched[2]
    /\ result' = Result("fetchPrices", TRUE, "none")
    /\ UNCHANGED <<storeVars, envVars, calls, now, quotes, opportunities, hook, aiVars>>

\* The token lists the monitor and the DEX fetches pass.
TokenLists == {<<"ethereum">>, <<"bitcoin">>, <<"ethereum", "bitcoin">>}
OutcomeLists(tokens) == [1..Len(tokens) -> FeedOutcomes]

NextFeed ==
    \/ \E tokens \in TokenLists : \E outcomes \in OutcomeLists(tokens) :
          FetchPrices(tokens, outcomes)
    \/ \E ms \in Waits : Wait(ms)

SpecFeed == Init /\ [][NextFeed]_vars

\* C27: every price fetchPrices returns is above 0, and for a token whose
\* request threw or whose response had no value it returns the price it had
\* cached for the token, or nothing when it had none.
C27_NoFabricatedPrice ==
    [][\A tokens \in TokenLists : \A outcomes \in OutcomeLists(tokens) :
          FetchPrices(tokens, outcomes) =>
              /\ \A q \in Range(prices') : q.price > 0
              /\ \A k \in 1..Len(tokens) :
                    outcomes[k] \in {Throws, NoValue} =>
                        {q \in Range(prices') : q.symbol = tokens[k]}
                            \subseteq {priceCache[tokens[k]]} \ {NoPrice}]_vars

----
\* The order of the detector's candidates (src/src/utils/priceFeeds.ts:152-153,
\* checked under SpecDetect).

\* The place of a token pair in the lexical order of the pairs.
LexicalRank(pair) ==
    CASE pair = "BTC/USDC" -> 1
      [] pair = "ETH/USDC" -> 2
      [] pair = "NEAR/USDC" -> 3
      [] OTHER -> 4

\* C28: the candidates detectArbitrageOpportunities returns are in
\* descending order of profit percentage, and candidates of equal
\* percentage are in the lexical order of their token pairs.
C28_OrderedByProfitThenSymbol ==
    result.op = "detectArbitrageOpportunities" =>
        \A j, k \in 1..Len(opportunities) :
            j < k =>
                /\ NotLess(opportunities[j].profitPercentage, opportunities[k].profitPercentage)
                /\ NotLess(opportunities[k].profitPercentage, opportunities[j].profitPercentage)
                      => LexicalRank(opportunities[j].tokenPair)
                            < LexicalRank(opportunities[k].tokenPair)

----
\* The analysis hook (src/src/hooks/useGroqAI.ts).  A performContinuousAnalysis
\* cycle, an analyzeMarket call and a detectOpportunities call each suspend
\* at their await on the advisory service, in a slot of calls.

HookOps == {"performContinuousAnalysis", "analyzeMarket", "detectOpportunities"}

\* What the hook never touches.
hookFrame ==
    <<storeVars, envVars, now, quotes, opportunities, feedVars, apiKey, aiInput,
      aiOpportunities>>

\* A state setter called with the component in phase "mounted" takes effect;
\* React drops an update queued for a component that is not mounted.
Commit(next) == IF next.phase = "mounted" THEN next ELSE hook

\* The component mounts: both effects run, setTimeout(..., 2000) and
\* setInterval(..., 30000) with the first render's performContinuousAnalysis.
Mount ==
    /\ hook.phase = "unmounted"
    /\ hook' = [InitialHook EXCEPT !.phase = "mounted", !.timer = TRUE,
                                   !.interval = [armed |-> TRUE, isAnalyzing |-> FALSE]]
    /\ UNCHANGED <<hookFrame, calls, result, groqVars>>

\* The component unmounts: the cleanups clearInterval and clearTimeout.
Unmount ==
    /\ hook.phase = "mounted"
    /\ hook' = [hook EXCEPT !.phase = "torn down", !.timer = FALSE, !.interval = NoInterval]
    /\ UNCHANGED <<hookFrame, calls, result, groqVars>>

\* updatePriceHistory(symbol, price): a new Map, so the effect on
\* [priceHistory] clears the interval and sets one whose callback closes over
\* this render's performContinuousAnalysis.
UpdatePriceHistory ==
    /\ hook.phase = "mounted"
    /\ hook' = [hook EXCEPT !.priceHistory = 1,
                            !.interval = [armed |-> TRUE, isAnalyzing |-> hook.isAnalyzing]]
    /\ UNCHANGED <<hookFrame, calls, result, groqVars>>

\* analyzeMarketData as the hook's callers see it from its start: whether a
\* request goes out, and the analysis it returns at once from the cache.
Asked == IsApiKeyAvailable /\ (ShouldAnalyze \/ Len(analysisHistory) = 0)
Started(op) ==
    Call(op, <<[id |-> <<"cycle", 0>>, asked |-> Asked,
                cached |-> IF IsApiKeyAvailable /\ ~Asked
                           THEN <<analysisHistory[Len(analysisHistory)]>> ELSE <<>>]>>)

\* performContinuousAnalysis as created by a render whose isAnalyzing was
\* isAnalyzingSeen, called with the hook's cells as h: it returns at once
\* when that isAnalyzing is true; else it sets isAnalyzing and suspends at
\* the Promise.all of the three service calls.
PerformContinuousAnalysis(h, isAnalyzingSeen) ==
    /\ IF isAnalyzingSeen
       THEN /\ hook' = h
            /\ result' = Result("performContinuousAnalysis", TRUE, "skipped")
            /\ UNCHANGED <<calls, requests>>
       ELSE /\ Suspend(Started("performContinuousAnalysis"))
            /\ hook' = Commit([h EXCEPT !.isAnalyzing = TRUE])
            /\ requests' = IF Asked /\ requests < MaxRequests THEN requests + 1
                           ELSE requests
            /\ UNCHANGED result
    /\ UNCHANGED <<hookFrame, analysisHistory, marketUpdates, lastAnalysisTime, returned>>

\* The start-up timer fires startContinuousMonitoring of the first render.
TimerFires ==
    /\ hook.timer
    /\ PerformContinuousAnalysis([hook EXCEPT !.timer = FALSE], FALSE)

\* The 30 s interval fires with a price history.
IntervalFires ==
    /\ hook.interval.armed
    /\ hook.priceHistory > 0
    /\ PerformContinuousAnalysis(hook, hook.interval.isAnalyzing)

\* forceAnalysis(), from the current render.
ForceAnalysis ==
    /\ hook.phase = "mounted"
    /\ PerformContinuousAnalysis(hook, hook.isAnalyzing)

\* groqAI.analyzeMarketData resolves for a caller suspended in slot k with
\* the analysis a: a fresh one, which the service pushes on its history; the
\* cached one; or the fallback.
AnalysisResolves(k, a) ==
    LET c == calls[k].held[1]
    IN /\ IF c.asked /\ a \in ServiceAnalyses("analyzeMarketData")
          THEN /\ analysisHistory' = PushAnalysis(analysisHistory, a)
               /\ lastAnalysisTime' = now
          ELSE /\ IF c.cached # <<>> THEN a = c.cached[1]
                  ELSE a \in GetEnhancedFallbackAnalysis
               /\ UNCHANGED <<analysisHistory, lastAnalysisTime>>
       /\ returned' = a

\* The analyses a call can resolve with.  The hook stores the analysis
\* without reading it: one fresh analysis and one fallback stand for all.
Resolutions(k) ==
    {a \in ServiceAnalyses("analyzeMarketData") \cup GetEnhancedFallbackAnalysis :
        a.recommendation = "HOLD" /\ a.confidence \in {60, 70}}
        \cup Range(calls[k].held[1].cached)

\* The token pairs of the opportunities a detection returned.
HookOpportunities == {<<>>, <<"ETH/USDC">>}

\* The Promise.all of a cycle resolves: the setters, then finally
\* setIsAnalyzing(false).  With a key the market update was requested and,
\* when that succeeded, pushed by the service.
CycleEnds(k, updateOk) ==
    /\ calls[k].op = "performContinuousAnalysis"
    /\ updateOk => IsApiKeyAvailable /\ Len(marketUpdates) < MaxUpdates
    /\ \E a \in Resolutions(k), opps \in HookOpportunities :
          LET update == IF updateOk THEN AIMarketUpdate(50, now)
                        ELSE CHOOSE u \in GetEnhancedMarketUpdate : TRUE
          IN /\ AnalysisResolves(k, a)
             /\ marketUpdates' = IF updateOk THEN PushUpdate(marketUpdates, update)
                                 ELSE marketUpdates
             /\ hook' = Commit([hook EXCEPT !.marketAnalysis = <<a>>,
                                            !.marketUpdate = <<update>>,
                                            !.aiOpportunities = opps,
                                            !.isAnalyzing = FALSE])
    /\ calls' = [calls EXCEPT ![k] = NoCall]
    /\ result' = Result("performContinuousAnalysis", TRUE, "none")
    /\ UNCHANGED <<hookFrame, requests>>

\* analyzeMarket(marketData) up to its await.
AnalyzeMarket ==
    /\ hook.phase = "mounted"
    /\ Suspend(Started("analyzeMarket"))
    /\ hook' = Commit([hook EXCEPT !.isAnalyzing = TRUE])
    /\ requests' = IF Asked /\ requests < MaxRequests THEN requests + 1 ELSE requests
    /\ UNCHANGED <<hookFrame, result, analysisHistory, marketUpdates, lastAnalysisTime,
                   returned>>

\* Its await resolves: setMarketAnalysis, then finally setIsAnalyzing(false).
AnalyzeMarketEnds(k) ==
    /\ calls[k].op = "analyzeMarket"
    /\ \E a \in Resolutions(k) :
          /\ AnalysisResolves(k, a)
          /\ hook' = Commit([hook EXCEPT !.marketAnalysis = <<a>>, !.isAnalyzing = FALSE])
    /\ calls' = [calls EXCEPT ![k] = NoCall]
    /\ result' = Result("analyzeMarket", TRUE, "none")
    /\ UNCHANGED <<hookFrame, requests, marketUpdates>>

\* detectOpportunities(nearPrices, ethPrices) up to its await.
DetectOpportunities ==
    /\ hook.phase = "mounted"
    /\ Suspend(Started("detectOpportunities"))
    /\ hook' = Commit([hook EXCEPT !.isAnalyzing = TRUE])
    /\ UNCHANGED <<hookFrame, result, groqVars>>

\* Its await resolves: setAiOpportunities, then finally setIsAnalyzing(false).
DetectOpportunitiesEnds(k) ==
    /\ calls[k].op = "detectOpportunities"
    /\ \E opps \in HookOpportunities :
          hook' = Commit([hook EXCEPT !.aiOpportunities = opps, !.isAnalyzing = FALSE])
    /\ calls' = [calls EXCEPT ![k] = NoCall]
    /\ result' = Result("detectOpportunities", TRUE, "none")
    /\ UNCHANGED <<hookFrame, groqVars>>

\* The page is loaded, with a key or without one; the component has not
\* mounted.
InitMonitor ==
    /\ intents = <<>>
    /\ executions = <<>>
    /\ profits = NoProfits
    /\ accountId = NoAccount
    /\ contract = FALSE
    /\ ledgerIntents = <<>>
    /\ ledgerExecutions = <<>>
    /\ calls = [k \in 1..MaxCalls |-> NoCall]
    /\ now = ANALYSIS_INTERVAL
    /\ result = Result("init", TRUE, "none")
    /\ baseline = <<>>
    /\ exported = <<>>
    /\ quotes = <<>>
    /\ opportunities = <<>>
    /\ InitFeed
    /\ InitHook
    /\ apiKey \in BOOLEAN
    /\ aiInput = <<>>
    /\ aiOpportunities = <<>>
    /\ InitGroq

NextMonitor ==
    \/ Mount
    \/ Unmount
    \/ UpdatePriceHistory
    \/ TimerFires
    \/ IntervalFires
    \/ ForceAnalysis
    \/ \E k \in Slots, updateOk \in BOOLEAN : CycleEnds(k, updateOk)
    \/ AnalyzeMarket
    \/ \E k \in Slots : AnalyzeMarketEnds(k)
    \/ DetectOpportunities
    \/ \E k \in Slots : DetectOpportunitiesEnds(k)

SpecMonitor == InitMonitor /\ [][NextMonitor]_vars

C30_OneCycleInFlight ==
    LET cycles == {k \in Slots : calls[k].op = "performContinuousAnalysis"}
    IN /\ Cardinality(cycles) <= 1
       /\ hook.phase = "mounted" => (hook.isAnalyzing <=> cycles # {})

====
